---- MODULE Spec2Model ----
(***************************************************************************)
(* Model of the document analysis pipeline of docsqa:                      *)
(*   core/patches.py   unified-diff parsing, scope and whitespace helpers  *)
(*   core/verifier.py  VerificationResult and Verifier.verify_suggestion   *)
(*   crawler/pipeline.py  AnalysisPipeline (analyze_file and its steps)    *)
(*   core/models.py, core/db.py  the issues table and its sessions         *)
(*                                                                         *)
(* Text is modelled by structure.  A patch is a sequence of diff lines; a  *)
(* diff line is a record whose kind is the prefix parse_unified_diff       *)
(* dispatches on ("---", "@@", "+", "-", " ").  A content line is a pair   *)
(* (pad, text): pad is the amount of leading whitespace and text the       *)
(* stripped content, so str.strip() is the projection on text.             *)
(***************************************************************************)
EXTENDS Integers, Sequences, FiniteSets, TLC

VARIABLES
    vpc,        \* position inside Verifier.verify_suggestion
    args,       \* arguments of the verify_suggestion call
    config,     \* Verifier.require_citations / allow_code_edits / max_whitespace_delta_lines
    result,     \* the VerificationResult being built
    link_calls, \* number of check_urls_batch calls made by the call
    issues_table,   \* the committed rows of the issues table, in insertion order
    session,        \* per writer: its _store_issues call and its database session
    next_run_id,    \* id the next AnalysisRun record gets
    ppc,            \* position inside AnalysisPipeline.analyze_file
    doc,            \* the document under analysis: its body lines
    llm_client,     \* whether the pipeline was built with an LLM client
    suggestions,    \* response.suggestions of the LLM for the document's chunk
    tasks,          \* the list _run_rule_analyzers hands to asyncio.gather
    rule_issues,    \* what _run_rule_analyzers returned
    si,             \* index of the suggestion _process_llm_suggestions is at
    issues,         \* the list _process_llm_suggestions is building
    verifications,  \* the values verify_suggestion returned to the pipeline, in order
    llm_issues,     \* what _run_llm_analysis returned
    combined_issues,\* what _combine_issues returned
    outbound,       \* one outbound call under tenacity's retry decorator
    mdx,            \* one MDXDocument being parsed
    chunker,        \* one chunk_document call
    drift,          \* one version reference under the version rules
    run             \* one run_full_analysis call

verifier_vars == <<vpc, args, config, result, link_calls>>
store_vars == <<issues_table, session, next_run_id>>
pipeline_vars == <<ppc, doc, llm_client, suggestions, tasks, rule_issues, si, issues,
                   verifications, llm_issues, combined_issues>>
unit_vars == <<outbound, mdx, chunker, drift, run>>
vars == <<verifier_vars, store_vars, pipeline_vars, unit_vars>>

\* a component that is not running
Idle == [pc |-> "idle"]

-----------------------------------------------------------------------------
(* Bounds of the model *)

MaxLine == 2      \* line numbers of the allowed range run over 1..MaxLine
MaxHunks == 2     \* diff header lines of a patch of the scope family
MaxBody == 2      \* content lines of the first hunk of a patch of the content family
MaxBatch == 2     \* candidate issues handed to one _store_issues call
MaxRuns == 2      \* analysis runs started

(* Program constants *)

DefaultMaxWhitespaceDeltaLines == 3

\* Python's None, for a list argument
None == [is_none |-> TRUE, list |-> <<>>]
List(l) == [is_none |-> FALSE, list |-> l]

-----------------------------------------------------------------------------
(* Diff lines *)

FileHeader == [kind |-> "file", start |-> 0, count |-> 0, pad |-> 0, text |-> ""]
HunkHeader(s, c) == [kind |-> "hunk", start |-> s, count |-> c, pad |-> 0, text |-> ""]
BadHunkHeader == [kind |-> "badhunk", start |-> 0, count |-> 0, pad |-> 0, text |-> ""]
ContentLine(k, p, t) == [kind |-> k, start |-> 0, count |-> 0, pad |-> p, text |-> t]

ContentKinds == {"added", "removed", "context"}

(* The stripped texts the model uses, and what the extractors find in them. *)
PlainA == "alpha"
PlainB == "beta"
WithUrl == "see http://x.io/doc"
GoodVer == "wandb==0.12.1"
BadVer == "wandb==0.12z"

\* extract_urls_from_text on one line
UrlsOfText(t) == IF t = WithUrl THEN {"http://x.io/doc"} ELSE {}

\* VersionResolver.extract_versions_from_text on one line: the matched literals
VersionsOfText(t) ==
    IF t = GoodVer THEN <<"0.12.1">>
    ELSE IF t = BadVer THEN <<"0.12z">>
    ELSE <<>>

\* packaging.version.parse accepts the literal
VersionParses(v) == v # "0.12z"

-----------------------------------------------------------------------------
(* patches.py *)

RECURSIVE ParseLines(_, _, _)
\* parse_unified_diff: the list of changes, each a list of hunks, or the
\* ValueError of parse_hunk_header.  The change being built is the last one.
ParseLines(lines, i, st) ==
    IF i > Len(lines) \/ st.err THEN st
    ELSE
        LET l == lines[i]
            n == Len(st.changes)
            cur == st.changes[n]
            nh == Len(cur)
        IN  ParseLines(lines, i + 1,
              CASE l.kind = "file" ->
                     [st EXCEPT !.changes = Append(@, <<>>)]
                [] l.kind = "hunk" ->
                     IF n = 0 THEN st
                     ELSE [st EXCEPT !.changes[n] =
                             Append(@, [original_start |-> l.start,
                                        original_count |-> l.count,
                                        lines |-> <<>>])]
                [] l.kind = "badhunk" ->
                     IF n = 0 THEN st ELSE [st EXCEPT !.err = TRUE]
                [] OTHER ->
                     IF n = 0 THEN st
                     ELSE IF nh = 0 THEN st
                     ELSE [st EXCEPT !.changes[n][nh].lines = Append(@, l)])

parse_unified_diff(patch_content) ==
    ParseLines(patch_content, 1, [changes |-> <<>>, err |-> FALSE])

HunkOutOfScope(hunk, allowed_line_start, allowed_line_end) ==
    LET hunk_start == hunk.original_start
        hunk_end == hunk_start + hunk.original_count - 1
    IN  hunk_start < allowed_line_start \/ hunk_end > allowed_line_end

validate_patch_scope(patch_content, allowed_line_start, allowed_line_end) ==
    LET p == parse_unified_diff(patch_content)
    IN  IF p.err THEN FALSE
        ELSE \A c \in 1..Len(p.changes) : \A h \in 1..Len(p.changes[c]) :
                ~HunkOutOfScope(p.changes[c][h], allowed_line_start, allowed_line_end)

SelectKinds(ls, kinds) == SelectSeq(ls, LAMBDA l : l.kind \in kinds)

NoSnippets == [found |-> FALSE, original |-> <<>>, modified |-> <<>>]

\* extract_snippet_from_patch: None (NoSnippets), or the original and the
\* modified lines of the first hunk of the first change.
extract_snippet_from_patch(patch_content) ==
    LET p == parse_unified_diff(patch_content)
    IN  IF p.err THEN NoSnippets
        ELSE IF Len(p.changes) = 0 THEN NoSnippets
        ELSE IF Len(p.changes[1]) = 0 THEN NoSnippets
        ELSE [found |-> TRUE,
              original |-> SelectKinds(p.changes[1][1].lines, {"context", "removed"}),
              modified |-> SelectKinds(p.changes[1][1].lines, {"context", "added"})]

\* count_whitespace_changes: lines compared by position, a missing line is "".
count_whitespace_changes(original_lines, modified_lines) ==
    LET max_lines == IF Len(original_lines) > Len(modified_lines)
                     THEN Len(original_lines) ELSE Len(modified_lines)
        lineAt(ls, i) == IF i <= Len(ls) THEN <<ls[i].pad, ls[i].text>> ELSE <<0, "">>
    IN  Cardinality({i \in 1..max_lines :
            /\ lineAt(original_lines, i)[2] = lineAt(modified_lines, i)[2]
            /\ lineAt(original_lines, i) # lineAt(modified_lines, i)})

-----------------------------------------------------------------------------
(* verifier.py: VerificationResult *)

NewVerificationResult ==
    [can_auto_apply |-> TRUE, warnings |-> <<>>, errors |-> <<>>, notes |-> <<>>]

add_warning(r, message) == [r EXCEPT !.warnings = Append(@, message)]

add_error_keeps_flag(r, message) == [r EXCEPT !.errors = Append(@, message)]

add_error(r, message) ==
    [r EXCEPT !.errors = Append(@, message), !.can_auto_apply = FALSE]

add_note(r, message) == [r EXCEPT !.notes = Append(@, message)]

(* The messages of the hard errors, one per place that adds it. *)
ErrScope == "Patch affects lines outside the allowed range"
ErrCodeEditsNotAllowed == "Code edits are not allowed by configuration"
ErrWhitespace == "Too many whitespace-only changes"
ErrCitations == "Accuracy claims require citations"
ErrCodeEditsDisabled == "Code edits are disabled by configuration"
ErrCatalogCitations == "Code edits require catalog citations"
ErrVerificationFailed == "Verification failed"

-----------------------------------------------------------------------------
(* Inputs of verify_suggestion *)

SuggestionTypes == {"text_edit", "code_edit", "accuracy"}

\* catalog_loader.get_api_info knows exactly these keys
ApiCatalog == {"wandb.init"}

Citation(t, k, v) == [type |-> t, key |-> k, value |-> v]

Citations ==
    { Citation("catalog", "wandb.init", ""), Citation("catalog", "wandb.nope", ""),
      Citation("fact", "", "0.12.1"), Citation("fact", "", "") }

\* the citations argument: a missing list, the empty list, or one citation
CitationLists == {None, List(<<>>)} \cup {List(<<c>>) : c \in Citations}

Configs ==
    [require_citations : BOOLEAN, allow_code_edits : BOOLEAN,
     max_whitespace_delta_lines : {0, DefaultMaxWhitespaceDeltaLines}]

\* Verifier.__init__ with an empty config
DefaultConfig ==
    [require_citations |-> TRUE, allow_code_edits |-> FALSE,
     max_whitespace_delta_lines |-> DefaultMaxWhitespaceDeltaLines]

SeqsUpTo(S, n) == UNION {[1..k -> S] : k \in 0..n}

\* The scope family: diff header lines in every order, with and without a
\* leading file header.
HunkHeaders == {HunkHeader(s, c) : s \in 1..(MaxLine + 1), c \in 0..MaxLine}

ScopePatches ==
    {pre \o hs : pre \in {<<>>, <<FileHeader>>},
                 hs \in SeqsUpTo(HunkHeaders \cup {FileHeader, BadHunkHeader}, MaxHunks)}

\* The content family: one in-range hunk and every body over these lines,
\* and the empty patch and a patch without a hunk, which yield no snippets.
BodyLines ==
    { ContentLine("removed", 0, PlainA), ContentLine("added", 0, PlainB),
      ContentLine("added", 1, PlainA), ContentLine("context", 0, WithUrl),
      ContentLine("added", 0, WithUrl), ContentLine("added", 0, GoodVer),
      ContentLine("added", 0, BadVer) }

ContentPatches ==
    {<<FileHeader, HunkHeader(1, 1)>> \o b : b \in SeqsUpTo(BodyLines, MaxBody)}
        \cup {<<>>, <<FileHeader>>}

Ranges == {<<s, e>> \in (1..MaxLine) \X (1..MaxLine) : s <= e}

VerifyArgs(p, r, t, c) ==
    [suggested_patch |-> p, line_start |-> r[1], line_end |-> r[2],
     suggestion_type |-> t, citations |-> c]

-----------------------------------------------------------------------------
(* verifier.py: Verifier.verify_suggestion, one action per check *)

Snippets == extract_snippet_from_patch(args.suggested_patch)

\* _count_html_tags of the rendered snippet: the contents are plain prose,
\* so a non-empty snippet renders as one paragraph and an empty one as nothing.
count_html_tags(snippet) == IF Len(snippet) = 0 THEN 0 ELSE 1

Return_and_go_on(r) == /\ result' = r
                       /\ vpc' = "links"

\* "return result" of verify_suggestion
Return(r) == /\ result' = r
             /\ vpc' = "done"

Continue(r, next) == /\ result' = r
                     /\ vpc' = next

\* 1. _check_patch_scope
CheckPatchScope ==
    /\ vpc = "scope"
    /\ IF ~validate_patch_scope(args.suggested_patch, args.line_start, args.line_end)
       THEN Return(add_error(result, ErrScope))
       ELSE Continue(result, "markdown")
    /\ UNCHANGED <<args, config, link_calls, store_vars, pipeline_vars, unit_vars>>

\* 2. _check_markdown_consistency; md_raises is the renderer failing
CheckMarkdownConsistency ==
    /\ vpc = "markdown"
    /\ IF ~Snippets.found
       THEN Continue(add_warning(result, "Could not extract snippets from patch"), "whitespace")
       ELSE \E md_raises \in BOOLEAN :
            IF md_raises
            THEN Continue(add_warning(result, "Could not verify markdown consistency"),
                          "whitespace")
            ELSE IF args.suggestion_type = "text_edit"
            THEN IF count_html_tags(Snippets.original) # count_html_tags(Snippets.modified)
                 THEN Continue(add_warning(result, "Markdown structure changed significantly"),
                               "whitespace")
                 ELSE Continue(result, "whitespace")
            ELSE IF args.suggestion_type = "code_edit" /\ ~config.allow_code_edits
            THEN Return(add_error(result, ErrCodeEditsNotAllowed))
            ELSE Continue(result, "whitespace")
    /\ UNCHANGED <<args, config, link_calls, store_vars, pipeline_vars, unit_vars>>

\* 3. _check_whitespace_churn
CheckWhitespaceChurn ==
    /\ vpc = "whitespace"
    /\ IF ~Snippets.found
       THEN Continue(result, "citations")
       ELSE IF count_whitespace_changes(Snippets.original, Snippets.modified)
                 > config.max_whitespace_delta_lines
       THEN Return(add_error(result, ErrWhitespace))
       ELSE Continue(result, "citations")
    /\ UNCHANGED <<args, config, link_calls, store_vars, pipeline_vars, unit_vars>>

\* the warning one citation earns in _validate_citations, if any
CitationWarning(c) ==
    IF c.type = "catalog" /\ c.key \notin ApiCatalog
    THEN <<"Catalog citation not found">>
    ELSE IF c.type = "fact" /\ c.value = ""
    THEN <<"Fact citation missing value">>
    ELSE <<>>

RECURSIVE AddWarnings_as_errors(_, _)
AddWarnings_as_errors(r, ws) ==
    IF ws = <<>> THEN r ELSE AddWarnings_as_errors(add_error(r, Head(ws)), Tail(ws))

RECURSIVE AddWarnings(_, _)
AddWarnings(r, ws) ==
    IF ws = <<>> THEN r ELSE AddWarnings(add_warning(r, Head(ws)), Tail(ws))

RECURSIVE CitationWarnings(_)
CitationWarnings(cs) ==
    IF cs = <<>> THEN <<>> ELSE CitationWarning(Head(cs)) \o CitationWarnings(Tail(cs))

NoCitations(cs) == cs.is_none \/ cs.list = <<>>

\* 4. _validate_citations; iterating a missing list raises inside its try
ValidateCitations ==
    /\ vpc = "citations"
    /\ IF /\ config.require_citations
          /\ args.suggestion_type \in {"accuracy", "code_edit"}
          /\ NoCitations(args.citations)
       THEN Return(add_error(result, ErrCitations))
       ELSE IF args.citations.is_none
       THEN Continue(add_warning(result, "Could not validate citations"), "code_edits")
       ELSE Continue(AddWarnings(result, CitationWarnings(args.citations.list)), "code_edits")
    /\ UNCHANGED <<args, config, link_calls, store_vars, pipeline_vars, unit_vars>>

\* _check_code_edits reaches its list comprehension over a missing list
CodeEditsRaises ==
    /\ args.suggestion_type = "code_edit"
    /\ config.allow_code_edits
    /\ args.citations.is_none

\* A step 5 that asks for no catalog citation.
CheckCodeEdits_without_catalog ==
    /\ vpc = "code_edits"
    /\ ~CodeEditsRaises
    /\ IF args.suggestion_type # "code_edit"
       THEN Continue(result, "links")
       ELSE IF ~config.allow_code_edits
       THEN Return(add_error(result, ErrCodeEditsDisabled))
       ELSE Continue(result, "links")
    /\ UNCHANGED <<args, config, link_calls, store_vars, pipeline_vars, unit_vars>>

\* 5. _check_code_edits
CheckCodeEdits ==
    /\ vpc = "code_edits"
    /\ ~CodeEditsRaises
    /\ IF args.suggestion_type # "code_edit"
       THEN Continue(result, "links")
       ELSE IF ~config.allow_code_edits
       THEN Return(add_error(result, ErrCodeEditsDisabled))
       ELSE IF SelectSeq(args.citations.list, LAMBDA c : c.type = "catalog") = <<>>
       THEN Return(add_error(result, ErrCatalogCitations))
       ELSE Continue(result, "links")
    /\ UNCHANGED <<args, config, link_calls, store_vars, pipeline_vars, unit_vars>>

\* the except clause of verify_suggestion
VerifyException ==
    /\ vpc = "code_edits"
    /\ CodeEditsRaises
    /\ Return(add_error(result, ErrVerificationFailed))
    /\ UNCHANGED <<args, config, link_calls, store_vars, pipeline_vars, unit_vars>>

UrlsOf(snippet) == UNION {UrlsOfText(snippet[i].text) : i \in 1..Len(snippet)}

LinkOutcomes == {"valid", "invalid", "raise"}

LinkCheckResult_as_error(r, outcome) ==
    IF outcome = "raise" THEN add_note(r, "Could not validate links")
    ELSE IF outcome = "invalid" THEN add_error(r, "New link may be broken")
    ELSE r

\* the result of _validate_links for one outcome of check_urls_batch
LinkCheckResult(r, outcome) ==
    IF outcome = "raise" THEN add_note(r, "Could not validate links")
    ELSE IF outcome = "invalid" THEN add_warning(r, "New link may be broken")
    ELSE r

\* 6. _validate_links
ValidateLinks ==
    /\ vpc = "links"
    /\ IF ~Snippets.found
       THEN Continue(result, "versions") /\ UNCHANGED link_calls
       ELSE IF UrlsOf(Snippets.modified) \ UrlsOf(Snippets.original) = {}
       THEN Continue(result, "versions") /\ UNCHANGED link_calls
       ELSE \E outcome \in LinkOutcomes :
            /\ Continue(LinkCheckResult(add_note(result, "Patch adds new links"), outcome),
                        "versions")
            /\ link_calls' = link_calls + 1
    /\ UNCHANGED <<args, config, store_vars, pipeline_vars, unit_vars>>

RECURSIVE VersionsOf(_)
VersionsOf(snippet) ==
    IF snippet = <<>> THEN <<>>
    ELSE VersionsOfText(Head(snippet).text) \o VersionsOf(Tail(snippet))

VersionWarnings(vs) ==
    [i \in 1..Len(SelectSeq(vs, LAMBDA v : ~VersionParses(v))) |->
        "Version format may be invalid"]

\* 7. _validate_versions
ValidateVersions ==
    /\ vpc = "versions"
    /\ IF ~Snippets.found
       THEN Return(result)
       ELSE Return(AddWarnings(result, VersionWarnings(VersionsOf(Snippets.modified))))
    /\ UNCHANGED <<args, config, link_calls, store_vars, pipeline_vars, unit_vars>>

VerifyStep ==
    \/ CheckPatchScope
    \/ CheckMarkdownConsistency
    \/ CheckWhitespaceChurn
    \/ ValidateCitations
    \/ CheckCodeEdits
    \/ VerifyException
    \/ ValidateLinks
    \/ ValidateVersions

-----------------------------------------------------------------------------
(* schemas.py IssueCreate, models.py Issue and its unique index *)

\* the fields of a candidate that are not part of its identity
Payload(d, sev, prov, auto, patch) ==
    [description |-> d, severity |-> sev, provenance |-> prov,
     can_auto_apply |-> auto, suggested_patch |-> patch]

IssueCreate(file_id, rule_code, line_start, title, pl, run_id) ==
    [file_id |-> file_id, rule_code |-> rule_code, line_start |-> line_start,
     title |-> title, description |-> pl.description, severity |-> pl.severity,
     provenance |-> pl.provenance, can_auto_apply |-> pl.can_auto_apply,
     suggested_patch |-> pl.suggested_patch,
     first_seen_run_id |-> run_id, last_seen_run_id |-> run_id]

\* the identity key: the columns of idx_unique_issue, the filter of the lookup
IdentityKey(i) == <<i.file_id, i.rule_code, i.line_start, i.title>>

\* Issue(**issue_data.dict()): the column defaults fill state and pr_state
NewIssueRow(issue_data) ==
    [file_id |-> issue_data.file_id, rule_code |-> issue_data.rule_code,
     line_start |-> issue_data.line_start, title |-> issue_data.title,
     description |-> issue_data.description, severity |-> issue_data.severity,
     provenance |-> issue_data.provenance,
     can_auto_apply |-> issue_data.can_auto_apply,
     suggested_patch |-> issue_data.suggested_patch,
     first_seen_run_id |-> issue_data.first_seen_run_id,
     last_seen_run_id |-> issue_data.last_seen_run_id,
     state |-> "open", pr_state |-> "none"]

KeysOf(rows) == {IdentityKey(rows[k]) : k \in 1..Len(rows)}

\* session.query(Issue).filter(...).first() over rows: the index of the first
\* row with the candidate's key, 0 when there is none
FirstMatch(rows, issue_data) ==
    LET hits == {k \in 1..Len(rows) : IdentityKey(rows[k]) = IdentityKey(issue_data)}
    IN  IF hits = {} THEN 0 ELSE CHOOSE k \in hits : \A j \in hits : k <= j

UpdateExisting_and_severity(existing, issue_data) ==
    [existing EXCEPT !.last_seen_run_id = issue_data.last_seen_run_id,
                     !.description = issue_data.description,
                     !.severity = issue_data.severity]

\* the two assignments of the update branch of _store_issues
UpdateExisting(existing, issue_data) ==
    [existing EXCEPT !.last_seen_run_id = issue_data.last_seen_run_id,
                     !.description = issue_data.description]

-----------------------------------------------------------------------------
(* pipeline.py: _combine_issues *)

RECURSIVE Deduplicate(_, _, _)
Deduplicate(all_issues, seen_keys, deduplicated) ==
    IF all_issues = <<>> THEN deduplicated
    ELSE LET issue == Head(all_issues)
             key == IdentityKey(issue)
         IN  IF key \notin seen_keys
             THEN Deduplicate(Tail(all_issues), seen_keys \cup {key},
                              Append(deduplicated, issue))
             ELSE Deduplicate(Tail(all_issues), seen_keys, deduplicated)

combine_issues_llm_first(rules, llms) ==
    Deduplicate(llms \o rules, {}, <<>>)

\* all_issues = rule_issues + llm_issues, then the loop
combine_issues(rules, llms) ==
    Deduplicate(rules \o llms, {}, <<>>)

-----------------------------------------------------------------------------
(* pipeline.py: _store_issues, one database round trip per action.          *)
(* Sessions are those of db.get_session over a server database at READ      *)
(* COMMITTED: a query sees the committed rows and the session's own flushed *)
(* rows; an INSERT whose key another open transaction has inserted waits    *)
(* for that transaction; a failed flush rolls the transaction back and      *)
(* leaves the session unusable until rollback().  The name db is taken to   *)
(* be the Database instance that db.py's get_database_instance returns.     *)

Writers == {1, 2}

IdleSession ==
    [pc |-> "idle", batch |-> <<>>, i |-> 0, added |-> <<>>, updates |-> <<>>,
     invalid |-> FALSE, outcome |-> "none", all_present |-> FALSE]

T1 == <<"Non-canonical terminology", 0>>

StorePayloads ==
    { Payload("d1", "low", "rule", TRUE, <<FileHeader, HunkHeader(1, 1)>>),
      Payload("d2", "high", "llm", FALSE, <<>>) }

\* the candidates of a run: two identity keys that differ in line_start
StoreCandidates(run_id) ==
    {IssueCreate(1, "STYLE_TERMINOLOGY", ln, T1, pl, run_id) :
        ln \in {1, 2}, pl \in StorePayloads}

Other(w) == CHOOSE o \in Writers : o # w

\* _store_issues is entered by a run with the output of _combine_issues (its
\* keys are distinct): the session opens
BeginStore(w) ==
    /\ session[w].pc = "idle"
    /\ next_run_id <= MaxRuns
    /\ \E batch \in SeqsUpTo(StoreCandidates(next_run_id), MaxBatch) :
         /\ batch # <<>>
         /\ Cardinality(KeysOf(batch)) = Len(batch)
         /\ session' = [session EXCEPT ![w] =
               [IdleSession EXCEPT !.pc = "query", !.batch = batch, !.i = 1,
                  !.all_present = KeysOf(batch) \subseteq KeysOf(issues_table)]]
    /\ next_run_id' = next_run_id + 1
    /\ UNCHANGED <<issues_table, verifier_vars, pipeline_vars, unit_vars>>

\* the loop moves to the next candidate, or to the commit after the last
Advance(s) ==
    [s EXCEPT !.i = @ + 1,
              !.pc = IF s.i + 1 > Len(s.batch) THEN "commit" ELSE "query"]

\* the lookup, and the update branch when it finds a row.  On an unusable
\* session the query raises and the except clause goes to the next candidate.
LookupExisting(w) ==
    LET s == session[w]
        issue_data == s.batch[s.i]
        k == FirstMatch(issues_table, issue_data)
        a == FirstMatch(s.added, issue_data)
    IN  /\ s.pc = "query"
        /\ session' = [session EXCEPT ![w] =
             IF s.invalid THEN Advance(s)
             ELSE IF k # 0
             THEN Advance([s EXCEPT !.updates =
                              Append(@, [row |-> k, issue_data |-> issue_data])])
             ELSE IF a # 0
             THEN Advance([s EXCEPT !.added[a] = UpdateExisting(@, issue_data)])
             ELSE [s EXCEPT !.pc = "insert"]]
        /\ UNCHANGED <<issues_table, next_run_id, verifier_vars, pipeline_vars, unit_vars>>

UniqueViolation_never(w) == FALSE

\* idx_unique_issue refuses the row: its key is committed
UniqueViolation(w) ==
    IdentityKey(session[w].batch[session[w].i]) \in KeysOf(issues_table)

\* the key is held by the other writer's open transaction
HeldByOther(w) ==
    IdentityKey(session[w].batch[session[w].i]) \in KeysOf(session[Other(w)].added)

\* the other writer is itself waiting for a key this writer holds
Deadlocked(w) ==
    /\ HeldByOther(w)
    /\ session[Other(w)].pc = "insert"
    /\ IdentityKey(session[Other(w)].batch[session[Other(w)].i])
           \in KeysOf(session[w].added)

\* session.add and session.flush of the insert branch
InsertNew(w) ==
    LET s == session[w]
        issue_data == s.batch[s.i]
    IN  /\ s.pc = "insert"
        /\ HeldByOther(w) => Deadlocked(w)
        /\ session' = [session EXCEPT ![w] =
             IF UniqueViolation(w) \/ Deadlocked(w)
             THEN Advance([s EXCEPT !.invalid = TRUE, !.added = <<>>, !.updates = <<>>])
             ELSE Advance([s EXCEPT !.added = Append(@, NewIssueRow(issue_data))])]
        /\ UNCHANGED <<issues_table, next_run_id, verifier_vars, pipeline_vars, unit_vars>>

RECURSIVE ApplyUpdates(_, _)
ApplyUpdates(rows, updates) ==
    IF updates = <<>> THEN rows
    ELSE LET u == Head(updates)
         IN  ApplyUpdates([rows EXCEPT ![u.row] = UpdateExisting(@, u.issue_data)],
                          Tail(updates))

\* session.commit(): on an unusable session it raises, get_session rolls back
\* and _store_issues raises into analyze_file
CommitStore(w) ==
    LET s == session[w]
    IN  /\ s.pc = "commit"
        /\ IF s.invalid
           THEN /\ issues_table' = issues_table
                /\ session' = [session EXCEPT ![w] =
                     [s EXCEPT !.pc = "idle", !.outcome = "raised"]]
           ELSE /\ issues_table' = ApplyUpdates(issues_table, s.updates) \o s.added
                /\ session' = [session EXCEPT ![w] =
                     [s EXCEPT !.pc = "idle", !.outcome = "returned",
                               !.added = <<>>, !.updates = <<>>]]
        /\ UNCHANGED <<next_run_id, verifier_vars, pipeline_vars, unit_vars>>

\* api/issues.py apply_issue on a stored issue
ApplyIssue ==
    \E k \in 1..Len(issues_table) :
        /\ issues_table[k].can_auto_apply
        /\ issues_table[k].state # "resolved"
        /\ issues_table' = [issues_table EXCEPT ![k].pr_state = "committed",
                                                 ![k].state = "resolved"]
        /\ UNCHANGED <<session, next_run_id, verifier_vars, pipeline_vars, unit_vars>>

StoreInit ==
    /\ issues_table = <<>>
    /\ session = [w \in Writers |-> IdleSession]
    /\ next_run_id = 1

StoreNext ==
    \/ \E w \in Writers : BeginStore(w)
    \/ \E w \in Writers : LookupExisting(w)
    \/ \E w \in Writers : InsertNew(w)
    \/ \E w \in Writers : CommitStore(w)
    \/ ApplyIssue

-----------------------------------------------------------------------------
(* pipeline.py: AnalysisPipeline.analyze_file on one document.              *)
(* A document is its body lines; a line is a level-1 heading or prose, and  *)
(* carries one of the plain texts.  The body ends with a newline.           *)

MaxDocLines == 2      \* body lines of a document
MaxSuggestions == 2   \* suggestions in the LLM's response

DocLine(h1, t) == [h1 |-> h1, text |-> t]

DocLines == {DocLine(TRUE, PlainA), DocLine(FALSE, PlainA), DocLine(FALSE, PlainB)}

Docs == SeqsUpTo(DocLines, MaxDocLines) \ {<<>>}

\* the arguments file_id and run_id of analyze_file
AnalyzeArgs == [file_id |-> 1, run_id |-> 1]

NoPatch == <<>>

\* rule_style.py: StyleAnalyzer._check_heading_structure with require_one_h1
RECURSIVE MultipleH1Issues(_, _, _, _)
MultipleH1Issues(h1_headings, i, file_id, run_id) ==
    IF i > Len(h1_headings) THEN <<>>
    ELSE <<IssueCreate(file_id, "STYLE_MULTIPLE_H1", h1_headings[i],
                       <<"Multiple H1 headings", i>>,
                       Payload("Document has multiple H1 headings", "low", "rule",
                               TRUE, NoPatch),
                       run_id)>>
         \o MultipleH1Issues(h1_headings, i + 1, file_id, run_id)

\* the line numbers of the level-1 headings of the document, in order
RECURSIVE H1Headings(_, _)
H1Headings(d, n) ==
    IF n > Len(d) THEN <<>>
    ELSE (IF d[n].h1 THEN <<n>> ELSE <<>>) \o H1Headings(d, n + 1)

check_heading_structure(d, file_id, run_id) ==
    LET h1_headings == H1Headings(d, 1)
    IN  IF Len(h1_headings) = 0
        THEN <<IssueCreate(file_id, "STYLE_NO_H1", 1, <<"Missing H1 heading", 0>>,
                           Payload("Document should have exactly one H1 heading",
                                   "medium", "rule", FALSE, NoPatch),
                           run_id)>>
        ELSE IF Len(h1_headings) > 1
        THEN MultipleH1Issues(h1_headings, 2, file_id, run_id)
        ELSE <<>>

\* rule_style.py: analyze_style.  The documents hold no image and no
\* terminology variant, so only the heading check reports.
analyze_style(d, file_id, run_id) == check_heading_structure(d, file_id, run_id)

\* An entry of the tasks list: a coroutine object (awaitable) for the async
\* analyzers, the returned list for the plain functions, which have already
\* run when the list is built.
Task(analyzer, awaitable, value) ==
    [analyzer |-> analyzer, awaitable |-> awaitable, value |-> value]

RECURSIVE Flatten(_)
Flatten(ts) == IF ts = <<>> THEN <<>> ELSE Head(ts).value \o Flatten(Tail(ts))

\* asyncio.gather(*tasks, return_exceptions=True): an argument that is a
\* list is unhashable, and gather raises TypeError before awaiting anything
GatherRaises(ts) == \E k \in 1..Len(ts) : ~ts[k].awaitable

BuildTasks ==
    /\ ppc = "rules"
    /\ tasks' = << Task("links", TRUE, <<>>),
                   Task("versions", TRUE, <<>>),
                   Task("api_cli", FALSE, <<>>),
                   Task("style", FALSE,
                        analyze_style(doc, AnalyzeArgs.file_id, AnalyzeArgs.run_id)) >>
    /\ ppc' = "gather"
    /\ UNCHANGED <<doc, llm_client, suggestions, rule_issues, si, issues,
                   verifications, llm_issues, combined_issues, verifier_vars, store_vars, unit_vars>>

\* the gather, the loop over its results, and the except clause of
\* _run_rule_analyzers; then the llm_client test of analyze_file
GatherResults ==
    /\ ppc = "gather"
    /\ rule_issues' = IF GatherRaises(tasks) THEN <<>> ELSE Flatten(tasks)
    /\ IF llm_client
       THEN ppc' = "suggestion" /\ si' = 1
       ELSE ppc' = "combine" /\ si' = si
    /\ UNCHANGED <<doc, llm_client, suggestions, tasks, issues, verifications,
                   llm_issues, combined_issues, verifier_vars, store_vars, unit_vars>>

-----------------------------------------------------------------------------
(* pipeline.py: _process_llm_suggestions *)

LLMSuggestion(t, rule_code, title, cs) ==
    [type |-> t, rule_code |-> rule_code, title |-> title,
     line_start |-> 1, line_end |-> 1,
     original_snippet |-> PlainA, proposed_snippet |-> PlainB,
     citations |-> cs, severity |-> "low", description |-> "suggested by the model"]

Suggestions ==
    {LLMSuggestion(t, "LLM_QUALITY", <<t, 0>>, cs) :
        t \in SuggestionTypes, cs \in {<<>>, <<Citation("catalog", "wandb.init", "")>>}}

\* the first line that contains the stripped snippet, 0 when none does
FirstLineWith(lines, snippet) ==
    LET hits == {k \in 1..Len(lines) : lines[k].text = snippet}
    IN  IF hits = {} THEN 0 ELSE CHOOSE k \in hits : \A j \in hits : k <= j

Max(a, b) == IF a >= b THEN a ELSE b
Min(a, b) == IF a <= b THEN a ELSE b

\* patches.py: create_unified_diff of a body and the body with line changed
\* replaced by new_text.  difflib yields "--- path", "+++ modified", the
\* "@@ -s,c +s,c @@" header and the hunk lines; with lineterm='' the three
\* headers carry no newline, so ''.join glues them and the first hunk line
\* into one text line that starts with "---".
GluedHeader(s, c, t) == [kind |-> "file", start |-> s, count |-> c, pad |-> 0, text |-> t]

\* A diff whose three headers each end their own text line.
create_unified_diff_on_separate_lines(lines, changed, new_text) ==
    IF changed = 0 \/ lines[changed].text = new_text THEN <<>>
    ELSE LET s == Max(1, changed - 3)
             e == Min(Len(lines), changed + 3)
             hunk == [k \in 1..(changed - s) |-> ContentLine("context", 0, lines[s + k - 1].text)]
                     \o <<ContentLine("removed", 0, lines[changed].text),
                          ContentLine("added", 0, new_text)>>
                     \o [k \in 1..(e - changed) |-> ContentLine("context", 0, lines[changed + k].text)]
         IN  <<FileHeader, HunkHeader(s, e - s + 1)>> \o hunk

create_unified_diff(lines, changed, new_text) ==
    IF changed = 0 \/ lines[changed].text = new_text THEN <<>>
    ELSE LET s == Max(1, changed - 3)
             e == Min(Len(lines), changed + 3)
             hunk == [k \in 1..(changed - s) |-> ContentLine("context", 0, lines[s + k - 1].text)]
                     \o <<ContentLine("removed", 0, lines[changed].text),
                          ContentLine("added", 0, new_text)>>
                     \o [k \in 1..(e - changed) |-> ContentLine("context", 0, lines[changed + k].text)]
         IN  <<GluedHeader(s, e - s + 1, Head(hunk).text)>> \o Tail(hunk)

\* the patch _process_llm_suggestions builds for a suggestion ("" when the
\* snippets are equal or the diff is empty)
SuggestedPatch(d, suggestion) ==
    IF suggestion.original_snippet = suggestion.proposed_snippet THEN NoPatch
    ELSE create_unified_diff(d, FirstLineWith(d, suggestion.original_snippet),
                             suggestion.proposed_snippet)

\* the loop body up to the call of verifier.verify_suggestion
ProcessSuggestion ==
    /\ ppc = "suggestion"
    /\ si <= Len(suggestions)
    /\ LET suggestion == suggestions[si]
       IN  args' = VerifyArgs(SuggestedPatch(doc, suggestion),
                              <<suggestion.line_start, suggestion.line_end>>,
                              suggestion.type, List(suggestion.citations))
    /\ result' = NewVerificationResult
    /\ link_calls' = 0
    /\ vpc' = "scope"
    /\ ppc' = "verify"
    /\ UNCHANGED <<config, doc, llm_client, suggestions, tasks, rule_issues, si,
                   issues, verifications, llm_issues, combined_issues, store_vars, unit_vars>>

\* verification_result["can_auto_apply"]: VerificationResult defines no
\* __getitem__, so the subscript raises TypeError
SubscriptRaises == TRUE

\* the IssueCreate of the loop body
SuggestionIssue(suggestion, patch, can_auto_apply, file_id, run_id) ==
    IssueCreate(file_id, suggestion.rule_code, suggestion.line_start, suggestion.title,
                Payload(suggestion.description, suggestion.severity, "llm",
                        can_auto_apply, patch),
                run_id)

\* verify_suggestion has returned: the issue is created and appended, or the
\* except clause logs and goes to the next suggestion
CreateIssue ==
    /\ ppc = "verify"
    /\ vpc = "done"
    /\ LET suggestion == suggestions[si]
           issue == SuggestionIssue(suggestion, args.suggested_patch,
                                    result.can_auto_apply,
                                    AnalyzeArgs.file_id, AnalyzeArgs.run_id)
       IN  /\ verifications' = Append(verifications,
                                      [key |-> IdentityKey(issue), result |-> result])
           /\ issues' = IF SubscriptRaises THEN issues ELSE Append(issues, issue)
    /\ si' = si + 1
    /\ ppc' = "suggestion"
    /\ vpc' = "idle"
    /\ UNCHANGED <<args, config, result, link_calls, doc, llm_client, suggestions,
                   tasks, rule_issues, llm_issues, combined_issues, store_vars, unit_vars>>

\* the loop is over: _process_llm_suggestions and _run_llm_analysis return
ReturnLLMIssues ==
    /\ ppc = "suggestion"
    /\ si > Len(suggestions)
    /\ llm_issues' = issues
    /\ ppc' = "combine"
    /\ UNCHANGED <<doc, llm_client, suggestions, tasks, rule_issues, si, issues,
                   verifications, combined_issues, verifier_vars, store_vars, unit_vars>>

\* step 3 of analyze_file
CombineIssues ==
    /\ ppc = "combine"
    /\ combined_issues' = combine_issues(rule_issues, llm_issues)
    /\ ppc' = "store"
    /\ UNCHANGED <<doc, llm_client, suggestions, tasks, rule_issues, si, issues,
                   verifications, llm_issues, verifier_vars, store_vars, unit_vars>>

\* _store_issues by a run that is the only writer
RECURSIVE store_issues(_, _)
store_issues(rows, batch) ==
    IF batch = <<>> THEN rows
    ELSE LET issue_data == Head(batch)
             k == FirstMatch(rows, issue_data)
         IN  store_issues(IF k # 0
                          THEN [rows EXCEPT ![k] = UpdateExisting(@, issue_data)]
                          ELSE Append(rows, NewIssueRow(issue_data)),
                          Tail(batch))

\* step 4 of analyze_file
StoreIssues ==
    /\ ppc = "store"
    /\ issues_table' = store_issues(issues_table, combined_issues)
    /\ ppc' = "done"
    /\ UNCHANGED <<session, next_run_id, doc, llm_client, suggestions, tasks,
                   rule_issues, si, issues, verifications, llm_issues, combined_issues, verifier_vars, unit_vars>>

\* no verify_suggestion call is under way
VerifierIdle ==
    /\ vpc = "idle"
    /\ args = VerifyArgs(<<>>, <<1, 1>>, "text_edit", List(<<>>))
    /\ config = DefaultConfig
    /\ result = NewVerificationResult
    /\ link_calls = 0

PipelineInputs ==
    /\ doc \in Docs
    /\ llm_client \in BOOLEAN
    /\ suggestions \in (IF llm_client THEN SeqsUpTo(Suggestions, MaxSuggestions) ELSE {<<>>})

PipelineIdle ==
    /\ tasks = <<>>
    /\ rule_issues = <<>>
    /\ si = 0
    /\ issues = <<>>
    /\ verifications = <<>>
    /\ llm_issues = <<>>
    /\ combined_issues = <<>>

UnitsIdle ==
    /\ outbound = Idle
    /\ mdx = Idle
    /\ chunker = Idle
    /\ drift = Idle
    /\ run = Idle

\* no analyze_file call is under way
PipelineOff ==
    /\ ppc = "idle"
    /\ doc = <<DocLine(TRUE, PlainA)>>
    /\ llm_client = FALSE
    /\ suggestions = <<>>
    /\ PipelineIdle

PipelineInit ==
    /\ ppc = "rules"
    /\ PipelineInputs
    /\ PipelineIdle
    /\ VerifierIdle
    /\ StoreInit
    /\ UnitsIdle

\* the suggestions carry a list of citations, so the handler of
\* verify_suggestion's try block is never entered from the pipeline
PipelineNext ==
    \/ BuildTasks
    \/ GatherResults
    \/ ProcessSuggestion
    \/ CheckPatchScope
    \/ CheckMarkdownConsistency
    \/ CheckWhitespaceChurn
    \/ ValidateCitations
    \/ CheckCodeEdits
    \/ ValidateLinks
    \/ ValidateVersions
    \/ CreateIssue
    \/ ReturnLLMIssues
    \/ CombineIssues
    \/ StoreIssues

PipelineSpec == PipelineInit /\ [][PipelineNext]_vars

-----------------------------------------------------------------------------
(* Runs of _store_issues by two writers on an empty table *)

StoreSpecInit == StoreInit /\ VerifierIdle /\ PipelineOff /\ UnitsIdle

StoreSpec == StoreSpecInit /\ [][StoreNext]_vars

-----------------------------------------------------------------------------
(* One verify_suggestion call on every input of the two families *)

VerifyInit ==
    /\ vpc = "scope"
    /\ result = NewVerificationResult
    /\ link_calls = 0
    /\ \/ /\ args \in {VerifyArgs(p, r, t, List(<<>>)) :
                          p \in ScopePatches, r \in Ranges, t \in {"text_edit"}}
          /\ config = DefaultConfig
       \/ /\ args \in {VerifyArgs(p, <<1, 1>>, t, c) :
                          p \in ContentPatches, t \in SuggestionTypes, c \in CitationLists}
          /\ config \in Configs
    /\ StoreInit
    /\ PipelineOff
    /\ UnitsIdle

VerifySpec == VerifyInit /\ [][VerifyStep]_vars

-----------------------------------------------------------------------------
(* Properties of verify_suggestion *)

InSeq(x, s) == \E i \in 1..Len(s) : s[i] = x

\* a step of the call keeps a false can_auto_apply false, and a step that
\* returns leaves it true exactly when no error was added
MonotonicStep ==
    /\ ~result.can_auto_apply => ~result'.can_auto_apply
    /\ vpc' = "done" => (result'.can_auto_apply <=> result'.errors = <<>>)

\* C1: within one verify_suggestion call can_auto_apply starts true, never
\* goes from false back to true, and at return is true exactly when the
\* errors list is empty.
C1_AutoApplyMonotonic ==
    /\ (vpc = "scope" => result.can_auto_apply)
    /\ [][MonotonicStep]_vars

\* a call that collected a warning and then hit a hard error has returned
C1_Witness ==
    /\ vpc = "done"
    /\ ~result.can_auto_apply
    /\ result.errors # <<>>
    /\ result.warnings # <<>>

\* the hunk header lines of the diff text
DiffHunks(patch_content) ==
    {i \in 1..Len(patch_content) : patch_content[i].kind = "hunk"}

\* some hunk of the diff has an original-file line outside the allowed
\* range, or a hunk header of the diff cannot be parsed
ScopeViolated ==
    \/ \E i \in DiffHunks(args.suggested_patch) :
         LET h == args.suggested_patch[i]
         IN  \E ln \in h.start..(h.start + h.count - 1) :
                ln < args.line_start \/ ln > args.line_end
    \/ \E i \in 1..Len(args.suggested_patch) : args.suggested_patch[i].kind = "badhunk"

\* C4: if a hunk of the diff leaves [line_start, line_end] or the diff cannot
\* be parsed, validate_patch_scope returns false and verify_suggestion, once
\* past its first check, has returned with exactly the scope error:
\* can_auto_apply false, no warning, no note, no link check.
C4_ScopeIsTerminal ==
    (ScopeViolated /\ vpc # "scope") =>
        /\ ~validate_patch_scope(args.suggested_patch, args.line_start, args.line_end)
        /\ vpc = "done"
        /\ result = add_error(NewVerificationResult, ErrScope)
        /\ link_calls = 0

\* C5 as stated: a call that ends with can_auto_apply false got its error from
\* the scope check, the code-edit policy (step 2 or 5) or the whitespace check.
C5_OnlyThreeBlockers ==
    (vpc = "done" /\ ~result.can_auto_apply) =>
        \A i \in 1..Len(result.errors) :
            result.errors[i] \in {ErrScope, ErrCodeEditsNotAllowed, ErrCodeEditsDisabled,
                                  ErrCatalogCitations, ErrWhitespace}

\* C5 amended: a call that ends with can_auto_apply false carries exactly one
\* error, added by the scope check, the code-edit policy (step 2 or 5), the
\* whitespace check, the citation-sufficiency check (step 4) or the except
\* clause of verify_suggestion.
C5_HardBlockers ==
    (vpc = "done" /\ ~result.can_auto_apply) =>
        /\ Len(result.errors) = 1
        /\ result.errors[1] \in {ErrScope, ErrCodeEditsNotAllowed, ErrCodeEditsDisabled,
                                 ErrCatalogCitations, ErrWhitespace,
                                 ErrCitations, ErrVerificationFailed}

\* the citation-sufficiency check has blocked a call
C5_Witness ==
    /\ vpc = "done"
    /\ result.errors = <<ErrCitations>>
    /\ ~result.can_auto_apply

AdvisoryStep ==
    vpc \in {"links", "versions"} =>
        /\ result'.can_auto_apply = result.can_auto_apply
        /\ result'.errors = result.errors

\* C6: steps 6 and 7 (link and version validation) leave can_auto_apply and
\* the errors list as they found them, whatever the link check answers and
\* whatever version literal the modified snippet holds.
C6_LinksVersionsAdvisory == [][AdvisoryStep]_vars

\* a call whose link check raised and whose modified snippet holds a
\* malformed version has returned, still auto-appliable
C6_Witness ==
    /\ vpc = "done"
    /\ link_calls = 1
    /\ InSeq("Could not validate links", result.notes)
    /\ InSeq("Version format may be invalid", result.warnings)
    /\ result.can_auto_apply
    /\ result.errors = <<>>

\* a step of the citation or the code-edit check that adds an error goes on
\* to the next check
GoesOnStep ==
    (vpc \in {"citations", "code_edits"} /\ result'.errors # result.errors)
        => vpc' \in {"code_edits", "links"}

\* C20 as stated: after the citation-sufficiency check or the code-edit check
\* has added an error, the call does not return: the remaining checks run.
C20_CitationErrorsGoOn == [][GoesOnStep]_vars

ErrorReturnsStep ==
    /\ result'.errors # result.errors => vpc' = "done"
    /\ vpc \in {"links", "versions"} => result.errors = <<>>

\* C20 amended: each of the five checks that can add an error (scope,
\* structural, whitespace, citations, code edits) returns as soon as it has
\* added one, so link and version validation run only in a call that has no
\* error.
C20_EveryErrorReturns == [][ErrorReturnsStep]_vars

\* a code edit without a catalog citation was rejected by the code-edit check,
\* and the link its patch adds was never checked
C20_Witness ==
    /\ vpc = "done"
    /\ result.errors = <<ErrCatalogCitations>>
    /\ Snippets.found
    /\ UrlsOf(Snippets.modified) \ UrlsOf(Snippets.original) # {}
    /\ link_calls = 0

-----------------------------------------------------------------------------
(* _combine_issues on every pair of short lists *)

MaxIssues == 2    \* issues in each list handed to _combine_issues

T2 == <<"Outdated version", 0>>

\* candidates whose keys differ from the first in rule code, line or title
CombineCandidates(provenance) ==
    {IssueCreate(1, k[1], k[2], k[3],
                 Payload(provenance, "low", provenance, FALSE, NoPatch), 1) :
        k \in { <<"STYLE_TERMINOLOGY", 1, T1>>, <<"VERSION_DRIFT", 1, T1>>,
                <<"STYLE_TERMINOLOGY", 2, T1>>, <<"STYLE_TERMINOLOGY", 1, T2>> }}

CombineInit ==
    /\ ppc = "combine"
    /\ rule_issues \in SeqsUpTo(CombineCandidates("rule"), MaxIssues)
    /\ llm_issues \in SeqsUpTo(CombineCandidates("llm"), MaxIssues)
    /\ doc = <<DocLine(TRUE, PlainA)>>
    /\ llm_client = TRUE
    /\ suggestions = <<>>
    /\ tasks = <<>>
    /\ si = 0
    /\ issues = llm_issues
    /\ verifications = <<>>
    /\ combined_issues = <<>>
    /\ VerifierIdle
    /\ StoreInit
    /\ UnitsIdle

CombineSpec == CombineInit /\ [][CombineIssues]_vars

\* C9: _combine_issues returns the first occurrence of every identity key of
\* rule_issues followed by llm_issues: the keys of the result are distinct,
\* every key of the input is present, the kept issues stand in their input
\* order, and on a key both lists hold the rule issue is the one kept.
C9_CombineKeepsFirst ==
    ppc = "store" =>
        LET all_issues == rule_issues \o llm_issues
            first(j) == FirstMatch(all_issues, combined_issues[j])
        IN  /\ Cardinality(KeysOf(combined_issues)) = Len(combined_issues)
            /\ KeysOf(combined_issues) = KeysOf(all_issues)
            /\ \A j \in 1..Len(combined_issues) :
                  /\ combined_issues[j] = all_issues[first(j)]
                  /\ \A k \in 1..Len(combined_issues) : j < k => first(j) < first(k)
                  /\ IdentityKey(combined_issues[j]) \in KeysOf(rule_issues)
                        => combined_issues[j].provenance = "rule"

\* a combine that met a key held by both lists and a key repeated in one list
C9_Witness ==
    /\ ppc = "store"
    /\ KeysOf(rule_issues) \cap KeysOf(llm_issues) # {}
    /\ Len(rule_issues) = MaxIssues
    /\ Len(llm_issues) = MaxIssues
    /\ Len(combined_issues) = MaxIssues

-----------------------------------------------------------------------------
(* Properties of _store_issues *)

UniqueKeys == Cardinality(KeysOf(issues_table)) = Len(issues_table)

\* writer w's _store_issues commits in this step
Commits(w) ==
    /\ session[w].pc = "commit"
    /\ session'[w].pc = "idle"
    /\ session'[w].outcome = "returned"

IdempotentStep ==
    \A w \in Writers :
        Commits(w) =>
            /\ KeysOf(session[w].batch) \subseteq KeysOf(issues_table')
            /\ session[w].all_present => Len(issues_table') = Len(issues_table)

\* C7: no two stored issues share the identity key (file_id, rule_code,
\* line_start, title); a run that stores its candidates leaves every one of
\* their keys in the table, and a run whose candidates' keys were all stored
\* when it began (a second run on the same candidates) leaves the number of
\* stored issues as it was.
C7_IdempotentUpsert == []UniqueKeys /\ [][IdempotentStep]_vars

\* a second run whose candidates were all stored by the first has committed
C7_Witness ==
    \E w \in Writers :
        /\ session[w].pc = "idle"
        /\ session[w].outcome = "returned"
        /\ session[w].all_present
        /\ Len(session[w].batch) = MaxBatch
        /\ Len(issues_table) = MaxBatch

FrameFields ==
    {"file_id", "rule_code", "line_start", "title", "state", "severity", "provenance",
     "first_seen_run_id", "can_auto_apply", "suggested_patch", "pr_state"}

\* the candidate of the batch with the key of the row
CandidateFor(batch, row) == batch[FirstMatch(batch, row)]

UpsertFrameStep ==
    \A w \in Writers :
        Commits(w) =>
            LET batch == session[w].batch
                old == issues_table
                new == issues_table'
            IN  /\ Len(new) = Len(old) + Cardinality(KeysOf(batch) \ KeysOf(old))
                /\ \A k \in 1..Len(old) :
                      /\ \A f \in FrameFields : new[k][f] = old[k][f]
                      /\ IF IdentityKey(old[k]) \in KeysOf(batch)
                         THEN /\ new[k].last_seen_run_id =
                                    CandidateFor(batch, old[k]).last_seen_run_id
                              /\ new[k].description = CandidateFor(batch, old[k]).description
                         ELSE new[k] = old[k]
                /\ \A k \in (Len(old) + 1)..Len(new) :
                      new[k] = NewIssueRow(CandidateFor(batch, new[k]))

C10_CollisionUpdatesInPlace ==
    /\ UniqueKeys
    /\ \A w \in Writers :
          (session[w].pc = "idle" /\ session[w].outcome # "none") =>
              /\ session[w].outcome = "returned"
              /\ KeysOf(session[w].batch) \subseteq KeysOf(issues_table)

-----------------------------------------------------------------------------
(* Properties of analyze_file *)

RECURSIVE SeqToSet(_)
SeqToSet(s) == IF s = <<>> THEN {} ELSE {Head(s)} \cup SeqToSet(Tail(s))

\* the candidate issues analyze_file holds: those its analyzers handed back,
\* those it has collected and combined
HeldCandidates ==
    SeqToSet(Flatten(tasks)) \cup SeqToSet(rule_issues) \cup SeqToSet(issues)
        \cup SeqToSet(llm_issues) \cup SeqToSet(combined_issues)

VerifiedClean(key) ==
    \E k \in 1..Len(verifications) :
        /\ verifications[k].key = key
        /\ verifications[k].result.errors = <<>>

C3_RejectedSuggestionKept ==
    \A k \in 1..Len(verifications) :
        verifications[k].result.errors # <<>> =>
            /\ ppc \in {"combine", "store", "done"} =>
                  \E j \in 1..Len(llm_issues) :
                      /\ IdentityKey(llm_issues[j]) = verifications[k].key
                      /\ ~llm_issues[j].can_auto_apply
            /\ ppc = "done" => verifications[k].key \in KeysOf(issues_table)

\* C11: when _run_rule_analyzers has returned, every issue an analyzer that
\* did not fail produced is in the returned list.
C11_SiblingIssuesReturned ==
    ppc \notin {"idle", "rules", "gather"} =>
        \A k \in 1..Len(tasks) : SeqToSet(tasks[k].value) \subseteq SeqToSet(rule_issues)

-----------------------------------------------------------------------------
(* linkcheck.py: LinkChecker._check_single_url and llm_client.py:           *)
(* LLMClient.generate_suggestions, both under                               *)
(* @retry(stop=stop_after_attempt(2), wait=wait_exponential(...)).          *)
(* The remote side is a script: what it answers to the first request, to    *)
(* the second, and so on.                                                   *)

MaxRequests == 2      \* length of the remote side's script

StopAfterAttempt == 2

Answers == {"ok", "http_404", "timeout", "connect_error", "error"}

TransientFailures == {"timeout", "connect_error", "error"}

\* what one execution of the decorated function does: it returns a value or
\* lets an exception out
Returned(ok, message) == [raised |-> FALSE, ok |-> ok, message |-> message]
Raised(message) == [raised |-> TRUE, ok |-> FALSE, message |-> message]

\* the body of _check_single_url for one answer of the remote side: every
\* exception of the request is caught and turned into an invalid LinkResult
check_single_url(target, answer) ==
    IF target \in {"mailto", "fragment"} THEN Returned(TRUE, "")
    ELSE IF answer = "ok" THEN Returned(TRUE, "")
    ELSE IF answer = "http_404" THEN Returned(FALSE, "HTTP 404")
    ELSE IF answer = "timeout" THEN Returned(FALSE, "Timeout")
    ELSE IF answer = "connect_error" THEN Returned(FALSE, "Connection error")
    ELSE Returned(FALSE, "error")

\* the body of generate_suggestions: an unsupported provider and every
\* failure of the request end in the except clause, which returns the empty
\* response
generate_suggestions(target, answer) ==
    IF target = "unsupported" THEN Returned(FALSE, "Generation failed")
    ELSE IF answer = "ok" THEN Returned(TRUE, "")
    ELSE Returned(FALSE, "Generation failed")

DecoratedBody(kind, target, answer) ==
    IF kind = "link" THEN check_single_url(target, answer)
    ELSE generate_suggestions(target, answer)

\* whether the execution sends a request to the remote side
SendsRequest(kind, target) ==
    IF kind = "link" THEN target = "http" ELSE target # "unsupported"

\* One iteration of tenacity's loop: the function runs; a returned value ends
\* the call; an exception ends it with RetryError once the attempt number
\* has reached the stop, and otherwise the loop sleeps and goes round again.
RetryAttempt ==
    /\ outbound.pc = "attempt"
    /\ LET sends == SendsRequest(outbound.kind, outbound.target)
           answer == IF sends /\ outbound.requests < Len(outbound.remote)
                     THEN outbound.remote[outbound.requests + 1] ELSE "ok"
           r == DecoratedBody(outbound.kind, outbound.target, answer)
           attempt_number == outbound.attempts + 1
       IN  outbound' = [outbound EXCEPT
             !.attempts = attempt_number,
             !.requests = IF sends THEN @ + 1 ELSE @,
             !.answers = IF sends THEN Append(@, answer) ELSE @,
             !.sleeps = IF r.raised /\ attempt_number < StopAfterAttempt THEN @ + 1 ELSE @,
             !.result = IF r.raised /\ attempt_number >= StopAfterAttempt
                        THEN Raised("RetryError") ELSE r,
             !.pc = IF r.raised /\ attempt_number < StopAfterAttempt
                    THEN "attempt" ELSE "done"]
    /\ UNCHANGED <<verifier_vars, store_vars, pipeline_vars, mdx, chunker, drift, run>>

OutboundCalls ==
    {[pc |-> "attempt", kind |-> k[1], target |-> k[2], remote |-> rs,
      attempts |-> 0, requests |-> 0, answers |-> <<>>, sleeps |-> 0,
      result |-> Returned(FALSE, "")] :
        k \in {<<"link", "mailto">>, <<"link", "fragment">>, <<"link", "http">>,
               <<"llm", "openai">>, <<"llm", "local">>, <<"llm", "unsupported">>},
        rs \in [1..MaxRequests -> Answers]}

RetryInit ==
    /\ outbound \in OutboundCalls
    /\ mdx = Idle
    /\ chunker = Idle
    /\ drift = Idle
    /\ run = Idle
    /\ VerifierIdle
    /\ StoreInit
    /\ PipelineOff

RetrySpec == RetryInit /\ [][RetryAttempt]_vars

\* C12: a finished outbound call was attempted at most twice, and when the
\* remote side failed the first request transiently the call made exactly
\* one further attempt, after one backoff, before it reported a failure.
C12_RetriesOnce ==
    outbound.pc = "done" =>
        /\ outbound.attempts <= StopAfterAttempt
        /\ (outbound.answers # <<>> /\ outbound.answers[1] \in TransientFailures) =>
              /\ outbound.attempts = StopAfterAttempt
              /\ outbound.sleeps = 1


\* ---------------------------------------------------------------------------
\* core/mdx_parse.py: MDXDocument.  A text is the sequence of its lines (what
\* str.split('\n') returns, so the empty text is one empty line) and a line is
\* the sequence of its characters.  No line of the alphabet holds "[", so the
\* link and image patterns of _parse_body match nothing on these inputs.
\* ---------------------------------------------------------------------------
MaxRawLines == 3

\* the back-tick character
BackTick == "bt"

LineH1 == <<"#", " ", "a">>
LineH2 == <<"#", "#", " ", "b">>
LineIndentedHeading == <<" ", "#", " ", "a">>
LineHashtag == <<"#", "a">>
LineFence == <<BackTick, BackTick, BackTick>>
LineInlineCode == <<BackTick, "a", BackTick>>
LineFenceLang == <<BackTick, BackTick, BackTick, "a">>
LineProse == <<"a">>
LineBlank == <<>>
LineBoundary == <<"-", "-", "-">>
LineBadYaml == <<"a", ":", " ", "a", ":", " ", "a">>

RawLines ==
    {LineH1, LineH2, LineIndentedHeading, LineHashtag, LineFence, LineFenceLang,
     LineInlineCode,
     LineProse, LineBlank, LineBoundary, LineBadYaml}

RawTexts == UNION {[1..n -> RawLines] : n \in 1..MaxRawLines}

\* str.lstrip / str.rstrip / str.strip on one line
RECURSIVE LStrip(_)
LStrip(s) == IF s # <<>> /\ Head(s) = " " THEN LStrip(Tail(s)) ELSE s

RECURSIVE RStrip(_)
RStrip(s) ==
    IF s # <<>> /\ s[Len(s)] = " " THEN RStrip(SubSeq(s, 1, Len(s) - 1)) ELSE s

Strip(s) == RStrip(LStrip(s))

StartsWith(s, p) == Len(s) >= Len(p) /\ SubSeq(s, 1, Len(p)) = p

\* length of the longest prefix of s made of characters of cs
RECURSIVE Run(_, _)
Run(s, cs) == IF s # <<>> /\ Head(s) \in cs THEN 1 + Run(Tail(s), cs) ELSE 0

\* str.strip on a whole text: blank lines at both ends go, and so does the
\* white space before the first and after the last remaining character
RECURSIVE DropBlankHead(_)
DropBlankHead(ls) ==
    IF ls # <<>> /\ Strip(Head(ls)) = <<>> THEN DropBlankHead(Tail(ls)) ELSE ls

RECURSIVE DropBlankLast(_)
DropBlankLast(ls) ==
    IF ls # <<>> /\ Strip(ls[Len(ls)]) = <<>>
    THEN DropBlankLast(SubSeq(ls, 1, Len(ls) - 1))
    ELSE ls

StripText(ls) ==
    LET kept == DropBlankLast(DropBlankHead(ls))
        n == Len(kept)
    IN  IF n = 0 THEN <<LineBlank>>
        ELSE [k \in 1..n |->
                 LET l == IF k = 1 THEN LStrip(kept[k]) ELSE kept[k]
                 IN  IF k = n THEN RStrip(l) ELSE l]

\* frontmatter.YAMLHandler.FM_BOUNDARY: three or more dashes, then white space
IsBoundary(l) ==
    LET s == RStrip(l) IN Len(s) >= 3 /\ Run(s, {"-"}) = Len(s)

Boundaries(ls) == {k \in 1..Len(ls) : IsBoundary(ls[k])}

SetMin(S) == CHOOSE m \in S : \A o \in S : m <= o

\* yaml.load on the lines between the boundaries: a line the scanner rejects
YamlRaises(fm) ==
    \E k \in 1..Len(fm) : fm[k] = LineBadYaml \/ StartsWith(Strip(fm[k]), LineFence)

\* frontmatter.loads(text): [raised, content]
frontmatter_loads(raw) ==
    LET text == StripText(raw)
        bs == Boundaries(text)
    IN  IF ~IsBoundary(text[1]) \/ Cardinality(bs) < 2
        THEN [raised |-> FALSE, content |-> text]
        ELSE LET second == SetMin(bs \ {1})
                 fm == SubSeq(text, 2, second - 1)
             IN  IF YamlRaises(fm)
                 THEN [raised |-> TRUE, content |-> <<>>]
                 ELSE [raised |-> FALSE,
                       content |-> StripText(SubSeq(text, second + 1, Len(text)))]

MDXElement(type, content, line_start, line_end, attributes) ==
    [type |-> type, content |-> content, line_start |-> line_start,
     line_end |-> line_end, attributes |-> attributes]

IsFenceLine(l) == StartsWith(Strip(l), LineFence)

\* the heading pattern of _parse_body on line.strip(): one or more '#', white
\* space, then the text
HeadingMatches(l) ==
    LET s == Strip(l)
        hashes == Run(s, {"#"})
    IN  hashes >= 1 /\ Len(s) > hashes /\ s[hashes + 1] = " "

HeadingLevel(l) == Run(Strip(l), {"#"})

HeadingText(l) ==
    LET s == Strip(l) IN LStrip(SubSeq(s, HeadingLevel(l) + 1, Len(s)))

\* the language of an opening fence: the word characters after the back-ticks
FenceLanguage(l) ==
    LET rest == SubSeq(Strip(l), 4, Len(Strip(l)))
    IN  SubSeq(rest, 1, Run(rest, {"a", "b"}))

\* the inline code pattern: a back-tick, one or more other characters, a
\* back-tick; the contents of the matches, left to right
RECURSIVE InlineCodeMatches(_)
InlineCodeMatches(l) ==
    IF l = <<>> THEN <<>>
    ELSE IF Head(l) # BackTick THEN InlineCodeMatches(Tail(l))
    ELSE LET rest == Tail(l)
             n == Run(rest, {"#", " ", "a", "b", "-", ":"})
         IN  IF n >= 1 /\ Len(rest) > n
             THEN <<SubSeq(rest, 1, n)>> \o InlineCodeMatches(SubSeq(rest, n + 2, Len(rest)))
             ELSE InlineCodeMatches(rest)

EmptyScan ==
    [headings |-> <<>>, code_blocks |-> <<>>, inline_code |-> <<>>, elements |-> <<>>,
     in_code_block |-> FALSE, code_block_start |-> 0, code_block_content |-> <<>>,
     code_block_language |-> <<>>]

\* A scan that goes on to the heading and inline-code patterns for a line
\* inside a fence.
ScanLine_scanning_fenced(d, l, i) ==
    IF IsFenceLine(l)
    THEN IF ~d.in_code_block
         THEN [d EXCEPT !.in_code_block = TRUE, !.code_block_start = i,
                        !.code_block_content = <<>>,
                        !.code_block_language = FenceLanguage(l)]
         ELSE [d EXCEPT !.in_code_block = FALSE,
                        !.code_blocks = Append(@,
                            MDXElement("code_block", d.code_block_content,
                                       d.code_block_start, i,
                                       [language |-> d.code_block_language]))]
    ELSE LET e == IF d.in_code_block
                  THEN [d EXCEPT !.code_block_content = Append(@, l)]
                  ELSE d
         IN  IF HeadingMatches(l)
             THEN [e EXCEPT !.headings = Append(@,
                      MDXElement("heading", HeadingText(l), i, i,
                                 [level |-> HeadingLevel(l)]))]
             ELSE LET ms == InlineCodeMatches(l)
                  IN  [e EXCEPT !.inline_code = @ \o
                          [k \in 1..Len(ms) |->
                              MDXElement("inline_code", ms[k], i, i, <<>>)]]

\* one iteration of the for loop of _parse_body, on line number i
ScanLine(d, l, i) ==
    IF IsFenceLine(l)
    THEN IF ~d.in_code_block
         THEN [d EXCEPT !.in_code_block = TRUE, !.code_block_start = i,
                        !.code_block_content = <<>>,
                        !.code_block_language = FenceLanguage(l)]
         ELSE [d EXCEPT !.in_code_block = FALSE,
                        !.code_blocks = Append(@,
                            MDXElement("code_block", d.code_block_content,
                                       d.code_block_start, i,
                                       [language |-> d.code_block_language]))]
    ELSE IF d.in_code_block
    THEN [d EXCEPT !.code_block_content = Append(@, l)]
    ELSE IF HeadingMatches(l)
    THEN [d EXCEPT !.headings = Append(@,
              MDXElement("heading", HeadingText(l), i, i, [level |-> HeadingLevel(l)]))]
    ELSE LET ms == InlineCodeMatches(l)
         IN  [d EXCEPT !.inline_code = @ \o
                 [k \in 1..Len(ms) |-> MDXElement("inline_code", ms[k], i, i, <<>>)]]

RECURSIVE ScanLines(_, _, _)
ScanLines(d, ls, i) ==
    IF i > Len(ls) THEN d ELSE ScanLines(ScanLine(d, ls[i], i), ls, i + 1)

\* _parse_paragraphs: [elements, current_paragraph, paragraph_start] after line i
RECURSIVE ParagraphScan(_, _, _)
ParagraphScan(p, ls, i) ==
    IF i > Len(ls)
    THEN IF p.current_paragraph # <<>>
         THEN Append(p.elements,
                     MDXElement("paragraph", p.current_paragraph, p.paragraph_start,
                                Len(ls), <<>>))
         ELSE p.elements
    ELSE LET s == Strip(ls[i])
             q == IF s = <<>>
                  THEN [elements |->
                            IF p.current_paragraph # <<>>
                            THEN Append(p.elements,
                                        MDXElement("paragraph", p.current_paragraph,
                                                   p.paragraph_start, i - 1, <<>>))
                            ELSE p.elements,
                        current_paragraph |-> <<>>,
                        paragraph_start |-> i + 1]
                  ELSE IF ~StartsWith(s, <<"#">>) /\ ~StartsWith(s, LineFence)
                  THEN [p EXCEPT !.current_paragraph = Append(@, ls[i])]
                  ELSE p
         IN  ParagraphScan(q, ls, i + 1)

\* _parse_body appends to the lists the document already holds
parse_body(d, body) ==
    LET scanned == ScanLines([d EXCEPT !.in_code_block = FALSE], body, 1)
    IN  [scanned EXCEPT !.elements =
            ParagraphScan([elements |-> scanned.elements, current_paragraph |-> <<>>,
                           paragraph_start |-> 1], body, 1)]

\* MDXDocument.__init__ with _parse: the except branch takes the raw text as
\* the body and scans it
ParseMdxFile ==
    /\ mdx.pc = "raw"
    /\ LET post == frontmatter_loads(mdx.raw_content)
           body == IF post.raised THEN mdx.raw_content ELSE post.content
           d == parse_body(EmptyScan, body)
       IN  mdx' = [pc |-> "done", raw_content |-> mdx.raw_content,
                   fell_back |-> post.raised, body_content |-> body,
                   headings |-> d.headings, code_blocks |-> d.code_blocks,
                   inline_code |-> d.inline_code, elements |-> d.elements]
    /\ UNCHANGED <<verifier_vars, store_vars, pipeline_vars, outbound, chunker, drift, run>>

ParseInit ==
    /\ mdx \in {[pc |-> "raw", raw_content |-> t] : t \in RawTexts}
    /\ outbound = Idle /\ chunker = Idle /\ drift = Idle /\ run = Idle
    /\ VerifierIdle /\ StoreInit /\ PipelineOff

ParseSpec == ParseInit /\ [][ParseMdxFile]_vars

\* C13: when a step of parsing fails, the document's body is the whole raw text
\* and nothing at all has been extracted from it.
C13_FallbackIsEmpty ==
    (mdx.pc = "done" /\ mdx.fell_back) =>
        /\ mdx.body_content = mdx.raw_content
        /\ mdx.headings = <<>> /\ mdx.code_blocks = <<>>
        /\ mdx.inline_code = <<>> /\ mdx.elements = <<>>

\* the lines of a body that lie outside code fences: an even number of fence
\* lines precedes them and they are no fence line themselves
OutsideFences(body) ==
    {i \in 1..Len(body) :
        /\ ~IsFenceLine(body[i])
        /\ Cardinality({j \in 1..(i - 1) : IsFenceLine(body[j])}) % 2 = 0}

\* l is level times '#', white space, then text (and whatever follows)
IsHeadingLine(l, level, text) ==
    /\ Run(l, {"#"}) = level
    /\ Len(l) > level
    /\ l[level + 1] = " "
    /\ StartsWith(LStrip(SubSeq(l, level + 1, Len(l))), text)

WellFormedHeading(l) ==
    \E level \in 1..Len(l) : IsHeadingLine(l, level, <<>>) /\ Strip(l) = l

HeadingsInLineOrder ==
    \A j, k \in 1..Len(mdx.headings) :
        j < k => mdx.headings[j].line_start < mdx.headings[k].line_start

\* C14: the headings are exactly the well-formed heading lines of the
\* body outside code fences, in line order, and the body line at line_start is
\* '#' level times, white space, then the heading's text.
C14_HeadingRoundTrip ==
    mdx.pc = "done" =>
        /\ Len(mdx.headings) =
              Cardinality({i \in OutsideFences(mdx.body_content) :
                              WellFormedHeading(mdx.body_content[i])})
        /\ HeadingsInLineOrder
        /\ \A k \in 1..Len(mdx.headings) :
              LET h == mdx.headings[k]
              IN  /\ h.line_start \in 1..Len(mdx.body_content)
                  /\ IsHeadingLine(mdx.body_content[h.line_start],
                                   h.attributes.level, h.content)

\* ---------------------------------------------------------------------------
\* core/chunker.py: DocumentChunker.  The tokenizer is tiktoken's; here a line
\* costs one token per character and a line break one token.  A chunk keeps
\* the fields the properties speak of (rendered_text, heading_context and
\* chunk_id are left out).
\* ---------------------------------------------------------------------------
MaxChunkLines == 4

ChunkLines == {LineH1, LineProse, LineBlank, LineFence, LineBadYaml}

ChunkBodies == UNION {[1..n -> ChunkLines] : n \in 1..MaxChunkLines}

ChunkSizes == {2, 4, 8}

OverlapSizes == {0, 50}

RECURSIVE SumTokens(_)
SumTokens(ls) == IF ls = <<>> THEN 0 ELSE Len(Head(ls)) + SumTokens(Tail(ls))

\* count_tokens of one line, and of lines joined by line breaks
count_tokens_line(l) == Len(l)

count_tokens(ls) == IF ls = <<>> THEN 0 ELSE SumTokens(ls) + Len(ls) - 1

MarkerOpen == <<"[", "a", "]">>
MarkerEnd == <<"[", "]">>

\* MDXDocument.to_rendered_text(): fences become markers, fenced lines go
RECURSIVE to_rendered_text(_, _)
to_rendered_text(ls, in_code_block) ==
    IF ls = <<>> THEN <<>>
    ELSE IF IsFenceLine(Head(ls))
    THEN <<IF in_code_block THEN MarkerEnd ELSE MarkerOpen>>
             \o to_rendered_text(Tail(ls), ~in_code_block)
    ELSE IF in_code_block THEN to_rendered_text(Tail(ls), in_code_block)
    ELSE <<Head(ls)>> \o to_rendered_text(Tail(ls), in_code_block)

\* the second loop of _render_section_for_llm: an empty line after an empty
\* line is dropped
RECURSIVE CollapseBlankLines(_, _)
CollapseBlankLines(ls, prev_empty) ==
    IF ls = <<>> THEN <<>>
    ELSE IF Head(ls) = <<>>
    THEN (IF prev_empty THEN <<>> ELSE <<Head(ls)>>) \o CollapseBlankLines(Tail(ls), TRUE)
    ELSE <<Head(ls)>> \o CollapseBlankLines(Tail(ls), FALSE)

\* DocumentChunker._render_section_for_llm: a line whose stripped text starts
\* with a fence or with four blanks is kept, every other line is stripped
render_section_for_llm(ls) ==
    CollapseBlankLines(
        [k \in 1..Len(ls) |->
            IF \/ StartsWith(Strip(ls[k]), LineFence)
               \/ StartsWith(Strip(ls[k]), <<" ", " ", " ", " ">>)
            THEN ls[k] ELSE Strip(ls[k])],
        FALSE)

DocumentChunk(content, rendered_text, start_line, end_line, token_count, kind) ==
    [content |-> content, rendered_text |-> rendered_text,
     start_line |-> start_line, end_line |-> end_line,
     token_count |-> token_count, kind |-> kind]

\* current_chunk_lines[-self.overlap_size // 50:]
OverlapLines(current, overlap_size) ==
    LET n == (0 - overlap_size) \div 50
    IN  IF n = 0 THEN current
        ELSE SubSeq(current, Max(1, Len(current) + n + 1), Len(current))

\* one iteration of the loop of _split_large_section
SplitLine(st, line, chunk_size, overlap_size) ==
    LET line_tokens == count_tokens_line(line)
    IN  IF st.current_tokens + line_tokens > chunk_size /\ st.current_chunk_lines # <<>>
        THEN LET overlap_lines == OverlapLines(st.current_chunk_lines, overlap_size)
                 reseeded == overlap_lines \o <<line>>
             IN  [chunks |-> Append(st.chunks,
                      DocumentChunk(st.current_chunk_lines,
                                    render_section_for_llm(st.current_chunk_lines),
                                    st.current_chunk_start,
                                    st.current_chunk_start + Len(st.current_chunk_lines) - 1,
                                    st.current_tokens, "partial")),
                  current_chunk_lines |-> reseeded,
                  current_chunk_start |->
                      st.current_chunk_start + Len(reseeded) - Len(overlap_lines) - 1,
                  current_tokens |-> SumTokens(reseeded)]
        ELSE [st EXCEPT !.current_chunk_lines = Append(@, line),
                        !.current_tokens = @ + line_tokens]

RECURSIVE SplitLines(_, _, _, _, _)
SplitLines(st, ls, i, chunk_size, overlap_size) ==
    IF i > Len(ls) THEN st
    ELSE SplitLines(SplitLine(st, ls[i], chunk_size, overlap_size), ls, i + 1,
                    chunk_size, overlap_size)

split_large_section(content, start_line, end_line, chunk_size, overlap_size) ==
    LET st == SplitLines([chunks |-> <<>>, current_chunk_lines |-> <<>>,
                          current_chunk_start |-> start_line, current_tokens |-> 0],
                         content, 1, chunk_size, overlap_size)
    IN  IF st.current_chunk_lines # <<>>
        THEN Append(st.chunks,
                    DocumentChunk(st.current_chunk_lines,
                                  render_section_for_llm(st.current_chunk_lines),
                                  st.current_chunk_start,
                                  end_line, st.current_tokens, "partial"))
        ELSE st.chunks

\* a chunker that emits empty sections too
SectionIsBlank_never(section_lines) == FALSE

\* not section_content.strip()
SectionIsBlank(section_lines) ==
    \A k \in 1..Len(section_lines) : Strip(section_lines[k]) = <<>>

\* the loop of _chunk_by_headings from boundary i on; boundaries are the line
\* numbers 1, the headings' lines, and the line count plus one
RECURSIVE ChunkSections(_, _, _, _, _)
ChunkSections(lines, boundaries, i, chunk_size, overlap_size) ==
    IF i > Len(boundaries) - 1 THEN <<>>
    ELSE LET section_start_line == boundaries[i]
             section_end_line == boundaries[i + 1] - 1
             section_lines == SubSeq(lines, section_start_line, section_end_line)
             rest == ChunkSections(lines, boundaries, i + 1, chunk_size, overlap_size)
         IN  IF SectionIsBlank(section_lines) THEN rest
             ELSE IF count_tokens(section_lines) <= chunk_size
             THEN <<DocumentChunk(section_lines, render_section_for_llm(section_lines),
                                  section_start_line, section_end_line,
                                  count_tokens(section_lines), "section")>> \o rest
             ELSE split_large_section(section_lines, section_start_line,
                                      section_end_line, chunk_size, overlap_size) \o rest

chunk_by_headings(lines, headings, chunk_size, overlap_size) ==
    ChunkSections(lines,
                  <<1>> \o [k \in 1..Len(headings) |-> headings[k].line_start]
                        \o <<Len(lines) + 1>>,
                  1, chunk_size, overlap_size)

ChunkDocument ==
    /\ chunker.pc = "ready"
    /\ LET full_text == to_rendered_text(chunker.body_content, FALSE)
           total_tokens == count_tokens(full_text)
       IN  chunker' = [chunker EXCEPT
               !.pc = "done",
               !.total_tokens = total_tokens,
               !.chunks =
                   IF total_tokens <= chunker.chunk_size
                   THEN <<DocumentChunk(chunker.body_content, full_text, 1,
                                        Len(chunker.body_content), total_tokens,
                                        "document")>>
                   ELSE chunk_by_headings(chunker.body_content, chunker.headings,
                                          chunker.chunk_size, chunker.overlap_size)]
    /\ UNCHANGED <<verifier_vars, store_vars, pipeline_vars, outbound, mdx, drift, run>>

ChunkerInputs ==
    {[pc |-> "ready", body_content |-> b,
      headings |-> parse_body(EmptyScan, b).headings,
      chunk_size |-> c, overlap_size |-> o, total_tokens |-> 0, chunks |-> <<>>] :
        b \in ChunkBodies, c \in ChunkSizes, o \in OverlapSizes}

ChunkInit ==
    /\ chunker \in ChunkerInputs
    /\ outbound = Idle /\ mdx = Idle /\ drift = Idle /\ run = Idle
    /\ VerifierIdle /\ StoreInit /\ PipelineOff

ChunkSpec == ChunkInit /\ [][ChunkDocument]_vars

C16_ChunkTokenBound ==
    chunker.pc = "done" =>
        \A k \in 1..Len(chunker.chunks) :
            \/ chunker.chunks[k].token_count <= chunker.chunk_size
            \/ Len(chunker.chunks[k].content) = 1

\* ---------------------------------------------------------------------------
\* core/version_resolver.py: VersionResolver.check_version_drift.  A version
\* string is its release numbers (one to three of them), a pre-release mark,
\* or a text that packaging.version.parse rejects.
\* ---------------------------------------------------------------------------
MaxVersionPart == 2

VersionParts == 0..MaxVersionPart

Releases ==
    [1..1 -> VersionParts] \cup [1..2 -> VersionParts]
        \cup {<<a, b, 1>> : a \in VersionParts, b \in VersionParts}

InvalidVersion == [valid |-> FALSE, release |-> <<>>, is_prerelease |-> FALSE]

\* packaging.version.parse
VersionStrings ==
    {[valid |-> TRUE, release |-> r, is_prerelease |-> p] : r \in Releases, p \in BOOLEAN}
        \cup {InvalidVersion}

\* Version.major / .minor / .micro: a missing number reads as 0
ReleasePart(v, k) == IF Len(v.release) >= k THEN v.release[k] ELSE 0

VersionLess(v, w) ==
    \E k \in 1..3 :
        /\ ReleasePart(v, k) < ReleasePart(w, k)
        /\ \A j \in 1..(k - 1) : ReleasePart(v, j) = ReleasePart(w, j)

VersionEqual(v, w) == \A k \in 1..3 : ReleasePart(v, k) = ReleasePart(w, k)

\* an allowance that the boundary itself already exceeds
ExceedsAllowance_inclusive(diff, allow) == diff >= allow

\* major_diff > allow_majors_behind, minor_diff > allow_minors_behind
ExceedsAllowance(diff, allow) == diff > allow

check_version_drift(found, latest, allow_majors_behind, allow_minors_behind) ==
    LET major_diff == ReleasePart(latest, 1) - ReleasePart(found, 1)
        minor_diff == ReleasePart(latest, 2) - ReleasePart(found, 2)
    IN  IF ~found.valid
        THEN [is_outdated |-> FALSE, reason |-> "invalid_version", severity |-> "none"]
        ELSE IF found.is_prerelease
        THEN [is_outdated |-> FALSE, reason |-> "prerelease", severity |-> "none"]
        ELSE IF VersionLess(latest, found)
        THEN [is_outdated |-> FALSE, reason |-> "newer_than_latest", severity |-> "none"]
        ELSE IF VersionEqual(found, latest)
        THEN [is_outdated |-> FALSE, reason |-> "current", severity |-> "none"]
        ELSE IF ExceedsAllowance(major_diff, allow_majors_behind)
        THEN [is_outdated |-> TRUE, reason |-> "major_behind", severity |-> "high"]
        ELSE IF major_diff = 0 /\ ExceedsAllowance(minor_diff, allow_minors_behind)
        THEN [is_outdated |-> TRUE, reason |-> "minor_behind",
              severity |-> IF minor_diff > 3 THEN "medium" ELSE "low"]
        ELSE [is_outdated |-> FALSE, reason |-> "acceptable", severity |-> "none"]

CheckVersionDrift ==
    /\ drift.pc = "ready"
    /\ drift' = [drift EXCEPT
           !.pc = "done",
           !.result = check_version_drift(drift.found_version, drift.latest_parsed,
                                          drift.allow_majors_behind,
                                          drift.allow_minors_behind)]
    /\ UNCHANGED <<verifier_vars, store_vars, pipeline_vars, outbound, mdx, chunker, run>>

DriftInputs ==
    {[pc |-> "ready", found_version |-> f, latest_parsed |-> l,
      allow_majors_behind |-> am, allow_minors_behind |-> an,
      result |-> [is_outdated |-> FALSE, reason |-> "none", severity |-> "none"]] :
        f \in VersionStrings,
        l \in {v \in VersionStrings : v.valid /\ ~v.is_prerelease},
        am \in {0, 1}, an \in {0, 1}}

\* ---------------------------------------------------------------------------
\* crawler/analyzers/rule_versions.py: VersionAnalyzer.  A line is a sequence
\* of tokens: white space, a word, the pin "wandb==", or a version literal.
\* ---------------------------------------------------------------------------
MaxAnalyzedLines == 2

Tok(t) == [t |-> t, release |-> <<>>]
Ver(r) == [t |-> "ver", release |-> r]

Ws == Tok("ws")
Word == Tok("word")
Pin == Tok("pin")

Old == <<0, 1>>
Latest == <<1, 2>>

AnalyzedLines ==
    {<<Pin, Ver(Old)>>,
     <<Ws, Pin, Ver(Old)>>,
     <<Pin, Ver(Old), Ws, Word, Ws, Ver(Old)>>,
     <<Pin, Ver(Latest)>>,
     <<Word>>}

AnalyzedBodies == UNION {[1..n -> AnalyzedLines] : n \in 1..MaxAnalyzedLines}

\* str.strip on a line of tokens
RECURSIVE StripTokens(_)
StripTokens(l) ==
    IF l # <<>> /\ Head(l) = Ws THEN StripTokens(Tail(l))
    ELSE IF l # <<>> /\ l[Len(l)] = Ws THEN StripTokens(SubSeq(l, 1, Len(l) - 1))
    ELSE l

\* extract_versions_from_text: the literals pinned with "wandb==", line by line
RefsOfLine(l, line_number) ==
    LET at == {k \in 2..Len(l) : l[k - 1] = Pin /\ l[k].t = "ver"}
        RECURSIVE Ordered(_)
        Ordered(S) ==
            IF S = {} THEN <<>>
            ELSE LET k == SetMin(S)
                 IN  <<[version |-> l[k].release, line_number |-> line_number,
                        line_content |-> StripTokens(l), match_at |-> k]>>
                         \o Ordered(S \ {k})
    IN  Ordered(at)

RECURSIVE extract_versions_from_text(_, _)
extract_versions_from_text(lines, i) ==
    IF i > Len(lines) THEN <<>>
    ELSE RefsOfLine(lines[i], i) \o extract_versions_from_text(lines, i + 1)

\* line_content.replace(old_version, new_version)
suggest_version_update(old_version, new_version, line_content) ==
    [k \in 1..Len(line_content) |->
        IF line_content[k] = Ver(old_version) THEN Ver(new_version) ELSE line_content[k]]

\* re.sub(version_pattern, 'VERSION', line)
MaskVersions(l) ==
    [k \in 1..Len(l) |-> IF l[k].t = "ver" THEN Tok("VERSION") ELSE l[k]]

is_safe_version_update(original_line, updated_line) ==
    MaskVersions(original_line) = MaskVersions(updated_line)

\* _create_version_issue; suggested_patch is the diff from the body to
\* modified_lines, which the issue carries here as patched_lines
create_version_issue(version_ref, drift_info, latest_version, body) ==
    LET suggested_line ==
            suggest_version_update(version_ref.version, latest_version,
                                   version_ref.line_content)
        differs == suggested_line # version_ref.line_content
        in_range == version_ref.line_number \in 1..Len(body)
    IN  [rule_code |-> IF drift_info.reason = "major_behind" THEN "SDKVER_MAJOR"
                       ELSE IF drift_info.reason = "minor_behind" THEN "SDKVER_MINOR"
                       ELSE "SDKVER_OLD",
         line_start |-> version_ref.line_number,
         match_at |-> version_ref.match_at,
         snippet |-> version_ref.line_content,
         proposed_snippet |-> IF differs THEN suggested_line ELSE <<>>,
         has_patch |-> differs /\ in_range,
         patched_lines |->
             IF differs /\ in_range
             THEN [body EXCEPT ![version_ref.line_number] = suggested_line]
             ELSE body,
         can_auto_apply |->
             differs /\ in_range
                 /\ is_safe_version_update(version_ref.line_content, suggested_line)]

RECURSIVE VersionIssues(_, _, _, _, _)
VersionIssues(refs, latest, am, an, body) ==
    IF refs = <<>> THEN <<>>
    ELSE LET drift_info ==
                 check_version_drift(
                     [valid |-> TRUE, release |-> Head(refs).version,
                      is_prerelease |-> FALSE],
                     latest, am, an)
             rest == VersionIssues(Tail(refs), latest, am, an, body)
         IN  IF drift_info.is_outdated
             THEN <<create_version_issue(Head(refs), drift_info, latest.release, body)>>
                      \o rest
             ELSE rest

\* VersionAnalyzer.analyze_document; no latest_info when PyPI gave none
AnalyzeDocument ==
    /\ drift.pc = "document"
    /\ drift' = [drift EXCEPT
           !.pc = "analyzed",
           !.issues =
               IF ~drift.latest_parsed.valid THEN <<>>
               ELSE VersionIssues(extract_versions_from_text(drift.body_content, 1),
                                  drift.latest_parsed, drift.allow_majors_behind,
                                  drift.allow_minors_behind, drift.body_content)]
    /\ UNCHANGED <<verifier_vars, store_vars, pipeline_vars, outbound, mdx, chunker, run>>

AnalyzerInputs ==
    {[pc |-> "document", body_content |-> b, latest_parsed |-> l,
      allow_majors_behind |-> am, allow_minors_behind |-> 1, issues |-> <<>>] :
        b \in AnalyzedBodies,
        l \in {InvalidVersion, [valid |-> TRUE, release |-> Latest, is_prerelease |-> FALSE]},
        am \in {0, 1}}

DriftInit ==
    /\ drift \in DriftInputs \cup AnalyzerInputs
    /\ outbound = Idle /\ mdx = Idle /\ chunker = Idle /\ run = Idle
    /\ VerifierIdle /\ StoreInit /\ PipelineOff

DriftNext == CheckVersionDrift \/ AnalyzeDocument

DriftSpec == DriftInit /\ [][DriftNext]_vars

\* C17: for released versions, with no major and one minor allowed behind: one
\* minor behind in the same major is not outdated; two or more minors behind is
\* outdated for minor_behind; a major behind by more than the allowance is
\* outdated for major_behind whatever the minors; equal or newer is never
\* outdated.
C17_DriftBoundary ==
    (drift.pc = "done" /\ drift.found_version.valid /\ ~drift.found_version.is_prerelease) =>
        LET f == drift.found_version
            l == drift.latest_parsed
            major_diff == ReleasePart(l, 1) - ReleasePart(f, 1)
            minor_diff == ReleasePart(l, 2) - ReleasePart(f, 2)
            defaults == drift.allow_majors_behind = 0 /\ drift.allow_minors_behind = 1
        IN  /\ (defaults /\ VersionLess(f, l) /\ major_diff = 0 /\ minor_diff = 1)
                  => ~drift.result.is_outdated
            /\ (defaults /\ VersionLess(f, l) /\ major_diff = 0 /\ minor_diff >= 2)
                  => drift.result.is_outdated /\ drift.result.reason = "minor_behind"
            /\ (VersionLess(f, l) /\ major_diff > drift.allow_majors_behind)
                  => drift.result.is_outdated /\ drift.result.reason = "major_behind"
            /\ ~VersionLess(f, l) => ~drift.result.is_outdated

\* 1.1 against 1.2 under the default allowances: accepted
C17_Witness ==
    /\ drift.pc = "done"
    /\ drift.allow_majors_behind = 0 /\ drift.allow_minors_behind = 1
    /\ drift.found_version = [valid |-> TRUE, release |-> <<1, 1>>, is_prerelease |-> FALSE]
    /\ drift.latest_parsed = [valid |-> TRUE, release |-> <<1, 2>>, is_prerelease |-> FALSE]
    /\ drift.result.reason = "acceptable"

\* C18: an issue the version analyzer marks can_auto_apply patches the document
\* in one place only: the line of the issue, where the matched version literal
\* becomes the latest version and every other token, and every other line,
\* stays as it was.
C18_OnlyTheVersionChanges ==
    drift.pc = "analyzed" =>
        \A k \in 1..Len(drift.issues) :
            LET i == drift.issues[k]
            IN  i.can_auto_apply =>
                    i.patched_lines =
                        [drift.body_content EXCEPT
                            ![i.line_start] = [@ EXCEPT ![i.match_at] = Ver(Latest)]]

\* ---------------------------------------------------------------------------
\* crawler/run_analysis.py: AnalysisRunner.run_full_analysis, with the db handle
\* bound to the Database instance as in the store model.  The run record is
\* the AnalysisRun row; the File records come from RepositorySync.
\* ---------------------------------------------------------------------------
MaxFiles == 2

\* sessionmaker(autocommit=False, autoflush=False, bind=engine) keeps the
\* default expire_on_commit
ExpireOnCommit == TRUE

RunSources == {"manual", "webhook", "scheduled"}

RunInputs ==
    {[pc |-> "created", status |-> "running", source |-> s, commit_sha |-> c,
      llm_enabled |-> l, error |-> "none", files |-> <<>>, i |-> 1,
      files_analyzed |-> 0, total_issues |-> 0, absorbed |-> 0,
      whole_run_failure |-> FALSE, raised |-> FALSE, llm_closed |-> FALSE] :
        s \in RunSources, c \in {"", "given"}, l \in BOOLEAN}

\* _mark_run_failed, the re-raise and the finally clause
mark_run_failed(r, error_message) ==
    [r EXCEPT !.pc = "finished", !.status = "failed", !.error = error_message,
              !.raised = TRUE, !.llm_closed = r.llm_enabled]

\* _mark_run_completed, the return and the finally clause
mark_run_completed(r, files_analyzed) ==
    [r EXCEPT !.pc = "finished", !.status = "success",
              !.files_analyzed = files_analyzed, !.llm_closed = r.llm_enabled]

\* step 1: sync_repository raises, or the run takes the commit it returns
SyncRepository ==
    /\ run.pc = "created"
    /\ \/ run' = mark_run_failed([run EXCEPT !.whole_run_failure = TRUE], "sync_error")
       \/ run' = [run EXCEPT !.pc = "synced",
                             !.commit_sha = IF @ = "" THEN "current" ELSE @]
    /\ UNCHANGED <<verifier_vars, store_vars, pipeline_vars, outbound, mdx, chunker, drift>>

\* step 2: get_changed_files raises, or returns File records that its session
\* has committed and closed
GetChangedFiles ==
    /\ run.pc = "synced"
    /\ \/ run' = mark_run_failed([run EXCEPT !.whole_run_failure = TRUE],
                                 "changed_files_error")
       \/ \E n \in 0..MaxFiles :
            run' = [run EXCEPT !.pc = "files", !.i = 1,
                        !.files = [k \in 1..n |-> [id |-> k, expired |-> ExpireOnCommit]]]
    /\ UNCHANGED <<verifier_vars, store_vars, pipeline_vars, outbound, mdx, chunker, drift>>

\* step 4, one file: reading file_record.path of an expired record outside its
\* session raises, in the try block and again in its except clause, which
\* takes the run to the outer except clause
ProcessFile ==
    /\ run.pc = "files"
    /\ run.i <= Len(run.files)
    /\ IF run.files[run.i].expired
       THEN run' = mark_run_failed(run, "detached_instance")
       ELSE \/ \E found \in 0..1 :
                 run' = [run EXCEPT !.i = @ + 1, !.total_issues = @ + found]
            \/ run' = [run EXCEPT !.i = @ + 1]
            \/ run' = [run EXCEPT !.i = @ + 1, !.absorbed = @ + 1]
    /\ UNCHANGED <<verifier_vars, store_vars, pipeline_vars, outbound, mdx, chunker, drift>>

\* no changed files, or step 5 after the loop
FinishRun ==
    /\ run.pc = "files"
    /\ run.i > Len(run.files)
    /\ run' = mark_run_completed(run, Len(run.files))
    /\ UNCHANGED <<verifier_vars, store_vars, pipeline_vars, outbound, mdx, chunker, drift>>

RunInit ==
    /\ run \in RunInputs
    /\ outbound = Idle /\ mdx = Idle /\ chunker = Idle /\ drift = Idle
    /\ VerifierIdle /\ StoreInit /\ PipelineOff

RunNext == SyncRepository \/ GetChangedFiles \/ ProcessFile \/ FinishRun

\* the event loop runs the coroutine to its end
RunSpec == RunInit /\ [][RunNext]_vars /\ WF_vars(RunNext)

RunOutcome ==
    run.pc = "finished" =>
        /\ run.whole_run_failure => run.status = "failed" /\ run.error # "none"
        /\ ~run.whole_run_failure =>
              run.status = "success" /\ run.files_analyzed = Len(run.files)

StatusStep == run.status # "running" => run'.status = run.status

\* C19: a failure of the sync or of change detection ends the run failed with
\* its message; without one, every file is gone through, per-file exceptions
\* being absorbed, and the run ends success; a run leaves running once, and
\* always does.
C19_RunOutcome ==
    /\ []RunOutcome
    /\ [][StatusStep]_vars
    /\ <>(run.status \in {"success", "failed"})

\* ---------------------------------------------------------------------------
\* Further properties of verify_suggestion (VerifySpec)
\* ---------------------------------------------------------------------------

HasCatalogCitation ==
    /\ ~args.citations.is_none
    /\ \E k \in 1..Len(args.citations.list) : args.citations.list[k].type = "catalog"

\* C21: a code_edit suggestion ends verify_suggestion with can_auto_apply set
\* only if code edits are enabled and it carries a catalog citation, whatever
\* the patch text is.
C21_CodeEditNeedsCatalog ==
    (vpc = "done" /\ args.suggestion_type = "code_edit" /\ result.can_auto_apply) =>
        config.allow_code_edits /\ HasCatalogCitation

\* a code edit whose patch yields no snippets and which is still accepted
C21_Witness ==
    /\ vpc = "done" /\ args.suggestion_type = "code_edit" /\ result.can_auto_apply
    /\ ~Snippets.found
    /\ config.allow_code_edits /\ HasCatalogCitation

\* ---------------------------------------------------------------------------
\* Further properties of the parser (ParseSpec)
\* ---------------------------------------------------------------------------

FenceLineNumbers(body) == {i \in 1..Len(body) : IsFenceLine(body[i])}

\* read while in-fence: an odd number of fence lines comes before the line
InFence(body, i) ==
    /\ ~IsFenceLine(body[i])
    /\ Cardinality({j \in FenceLineNumbers(body) : j < i}) % 2 = 1

\* the k-th smallest number of S
RECURSIVE Nth(_, _)
Nth(S, k) == IF k = 1 THEN SetMin(S) ELSE Nth(S \ {SetMin(S)}, k - 1)

\* what follows the back-ticks of a fence line, up to the first blank
OpeningToken(l) ==
    LET rest == SubSeq(Strip(l), 4, Len(Strip(l)))
    IN  SubSeq(rest, 1, Run(rest, {"#", "a", "b", "-", ":", BackTick}))

MaxUrls == 3

\* A URL is known by its host; NoHost stands for a mailto:, tel:, javascript:,
\* fragment or relative URL, which _check_single_url answers without a request.
NoHost == "none"
Hosts == {"h1", "h2"}
UrlLists == SeqsUpTo(Hosts \cup {NoHost}, MaxUrls) \ {<<>>}

Concurrencies == {1, 2, 3}
PerHostLimits == {1, 2}

\* async with LinkChecker(...) is about to be entered.  limits_raises is the
\* outcome of httpx.Limits(..., max_connections_per_host=...): httpx has no
\* such keyword and raises TypeError; a client that is built all the same has
\* a pool bounded by max_connections only.
LinkInputs ==
    {[pc |-> "enter", urls |-> u, concurrency |-> c, per_host_limit |-> p,
      limits_raises |-> r, session |-> FALSE, tasks |-> <<>>, cache |-> {}] :
        u \in UrlLists, c \in Concurrencies, p \in PerHostLimits, r \in BOOLEAN}

Holding(o) == {i \in 1..Len(o.tasks) : o.tasks[i] \in {"holding", "in_flight"}}
InFlightTo(o, h) == {i \in 1..Len(o.tasks) : o.tasks[i] = "in_flight" /\ o.urls[i] = h}

\* LinkChecker.__aenter__
EnterChecker ==
    /\ outbound.pc = "enter"
    /\ outbound' = IF outbound.limits_raises
                   THEN [outbound EXCEPT !.pc = "raised"]
                   ELSE [outbound EXCEPT !.pc = "entered", !.session = TRUE]
    /\ UNCHANGED <<verifier_vars, store_vars, pipeline_vars, mdx, chunker, drift, run>>

\* check_links up to the gather: one task per URL, none of them started
CheckLinks ==
    /\ outbound.pc = "entered"
    /\ outbound.session
    /\ outbound' = [outbound EXCEPT !.pc = "gather",
                        !.tasks = [i \in 1..Len(outbound.urls) |-> "pending"]]
    /\ UNCHANGED <<verifier_vars, store_vars, pipeline_vars, mdx, chunker, drift, run>>

\* async with semaphore, entered by task i
AcquireSemaphore(i) ==
    /\ outbound.pc = "gather"
    /\ outbound.tasks[i] = "pending"
    /\ Cardinality(Holding(outbound)) < outbound.concurrency
    /\ outbound' = [outbound EXCEPT !.tasks[i] = "holding"]
    /\ UNCHANGED <<verifier_vars, store_vars, pipeline_vars, mdx, chunker, drift, run>>

\* the early returns of _check_single_url: no request is made
ReturnWithoutRequest(i) ==
    /\ outbound.pc = "gather"
    /\ outbound.tasks[i] = "holding"
    /\ outbound.urls[i] = NoHost
    /\ outbound' = [outbound EXCEPT !.tasks[i] = "done"]
    /\ UNCHANGED <<verifier_vars, store_vars, pipeline_vars, mdx, chunker, drift, run>>

\* await self.session.head(url): the pool hands out a connection while fewer
\* than max_connections (= concurrency) are in use
SendRequest(i) ==
    /\ outbound.pc = "gather"
    /\ outbound.tasks[i] = "holding"
    /\ outbound.urls[i] # NoHost
    /\ Cardinality({j \in 1..Len(outbound.tasks) : outbound.tasks[j] = "in_flight"})
           < outbound.concurrency
    /\ outbound' = [outbound EXCEPT !.tasks[i] = "in_flight"]
    /\ UNCHANGED <<verifier_vars, store_vars, pipeline_vars, mdx, chunker, drift, run>>

\* the response, a timeout or an error arrives; the task returns its
\* LinkResult and leaves the semaphore
ReceiveResponse(i) ==
    /\ outbound.pc = "gather"
    /\ outbound.tasks[i] = "in_flight"
    /\ outbound' = [outbound EXCEPT !.tasks[i] = "done"]
    /\ UNCHANGED <<verifier_vars, store_vars, pipeline_vars, mdx, chunker, drift, run>>

\* gather returns; the results go to the cache
GatherReturns ==
    /\ outbound.pc = "gather"
    /\ \A i \in 1..Len(outbound.tasks) : outbound.tasks[i] = "done"
    /\ outbound' = [outbound EXCEPT !.pc = "returned",
                        !.cache = {outbound.urls[i] : i \in 1..Len(outbound.urls)}]
    /\ UNCHANGED <<verifier_vars, store_vars, pipeline_vars, mdx, chunker, drift, run>>

LinkInit ==
    /\ outbound \in LinkInputs
    /\ mdx = Idle /\ chunker = Idle /\ drift = Idle /\ run = Idle
    /\ VerifierIdle /\ StoreInit /\ PipelineOff

LinkNext ==
    \/ EnterChecker
    \/ CheckLinks
    \/ \E i \in 1..MaxUrls :
          /\ outbound.pc = "gather"
          /\ i <= Len(outbound.tasks)
          /\ \/ AcquireSemaphore(i)
             \/ ReturnWithoutRequest(i)
             \/ SendRequest(i)
             \/ ReceiveResponse(i)
    \/ GatherReturns

LinkSpec == LinkInit /\ [][LinkNext]_vars

SemaphoreBound ==
    outbound.pc = "gather" => Cardinality(Holding(outbound)) <= outbound.concurrency

PerHostBound ==
    outbound.pc = "gather" =>
        \A h \in Hosts : Cardinality(InFlightTo(outbound, h)) <= outbound.per_host_limit

MaxLintLines == 3

\* The characters of a line; three of them stand for a whole match:
\* UrlU for a plain-text URL, LinkV for a markdown link to the URL UrlV, and
\* Variant for a configured non-canonical variant between word boundaries.
UrlU == "U"
UrlV == "V"
LinkV == "[t](V)"
Variant == "T"

LintPlainUrl == <<UrlU>>
LintLink == <<LinkV>>
LintVariant == <<Variant>>
LintIndented == <<" ", " ", " ", " ", Variant>>
LintLines == {LineProse, LineFence, LintPlainUrl, LintLink, LintVariant, LintIndented}
LintBodies == SeqsUpTo(LintLines, MaxLintLines) \ {<<>>}

HasChar(l, c) == \E k \in 1..Len(l) : l[k] = c

\* doc.links as _parse_body leaves it: the links of the lines read outside a
\* fence, in line order
RECURSIVE DocLinks(_, _)
DocLinks(body, i) ==
    IF i > Len(body) THEN <<>>
    ELSE (IF ~IsFenceLine(body[i]) /\ ~InFence(body, i) /\ HasChar(body[i], LinkV)
          THEN <<[url |-> UrlV, line_start |-> i, type |-> "markdown_link"]>>
          ELSE <<>>) \o DocLinks(body, i + 1)

\* extract_urls_from_text on one line
extract_urls_from_text(l) ==
    (IF HasChar(l, LinkV) THEN {UrlV} ELSE {}) \cup (IF HasChar(l, UrlU) THEN {UrlU} ELSE {})

\* the second loop of _extract_all_links, from line i on
RECURSIVE PlainLinks(_, _, _)
PlainLinks(body, i, links) ==
    IF i > Len(body) THEN links
    ELSE IF HasChar(body[i], LinkV) \/ StartsWith(Strip(body[i]), LineFence)
    THEN PlainLinks(body, i + 1, links)
    ELSE LET new == {u \in extract_urls_from_text(body[i]) :
                        ~\E k \in 1..Len(links) :
                            links[k].url = u /\ links[k].line_start = i}
             \* a line of this alphabet holds at most one URL
             added == IF new = {} THEN <<>>
                      ELSE <<[url |-> CHOOSE u \in new : TRUE, line_start |-> i,
                              type |-> "plain_url"]>>
         IN  PlainLinks(body, i + 1, links \o added)

extract_all_links(body) == PlainLinks(body, 1, DocLinks(body, 1))

\* list(set(...)) in a fixed order
RECURSIVE SetToSeq(_)
SetToSeq(S) ==
    IF S = {} THEN <<>>
    ELSE LET x == CHOOSE y \in S : TRUE IN <<x>> \o SetToSeq(S \ {x})

LinkDocs ==
    {[pc |-> "extract", body_content |-> b, limits_raises |-> r,
      all_links |-> <<>>, urls_to_check |-> <<>>, issues |-> <<>>] :
        b \in LintBodies, r \in BOOLEAN}

\* LinkAnalyzer.analyze_document up to the link check
ExtractAllLinks ==
    /\ mdx.pc = "extract"
    /\ LET links == extract_all_links(mdx.body_content)
       IN  mdx' = [mdx EXCEPT
                     !.pc = IF links = <<>> THEN "reported" ELSE "extracted",
                     !.all_links = links]
    /\ UNCHANGED <<verifier_vars, store_vars, pipeline_vars, outbound, chunker, drift, run>>

\* the async with block: either entering the checker raises and the except
\* clause returns no issue, or every URL of the set is checked once and each
\* link with an invalid result becomes an issue
CheckAndReport ==
    /\ mdx.pc = "extracted"
    /\ \E invalid \in SUBSET {UrlU, UrlV} :
          LET urls == SetToSeq({mdx.all_links[k].url : k \in 1..Len(mdx.all_links)})
              bad == SelectSeq(mdx.all_links, LAMBDA l : l.url \in invalid)
          IN  mdx' = IF mdx.limits_raises
                     THEN [mdx EXCEPT !.pc = "reported"]
                     ELSE [mdx EXCEPT !.pc = "reported", !.urls_to_check = urls,
                              !.issues = [k \in 1..Len(bad) |->
                                  [url |-> bad[k].url, line_start |-> bad[k].line_start]]]
    /\ UNCHANGED <<verifier_vars, store_vars, pipeline_vars, outbound, chunker, drift, run>>

TermDocs == {[pc |-> "terms", body_content |-> b, issues |-> <<>>] : b \in LintBodies}

\* the matches of one alternative on the lines from i on, each an issue
\* unless the line holds a fence or its stripped text starts with four blanks
RECURSIVE TerminologyIssues(_, _)
TerminologyIssues(body, i) ==
    IF i > Len(body) THEN <<>>
    ELSE LET l == body[i]
             skipped == \/ \E k \in 1..Len(l) : StartsWith(SubSeq(l, k, Len(l)), LineFence)
                        \/ StartsWith(Strip(l), <<" ", " ", " ", " ">>)
         IN  (IF HasChar(l, Variant) /\ ~skipped
              THEN <<[rule_code |-> "STYLE_TERMINOLOGY", line_start |-> i,
                      can_auto_apply |-> TRUE]>>
              ELSE <<>>) \o TerminologyIssues(body, i + 1)

\* StyleAnalyzer._check_terminology with one configured variant
CheckTerminology ==
    /\ mdx.pc = "terms"
    /\ mdx' = [mdx EXCEPT !.pc = "checked",
                  !.issues = TerminologyIssues(mdx.body_content, 1)]
    /\ UNCHANGED <<verifier_vars, store_vars, pipeline_vars, outbound, chunker, drift, run>>

LintInit ==
    /\ mdx \in LinkDocs \cup TermDocs
    /\ outbound = Idle /\ chunker = Idle /\ drift = Idle /\ run = Idle
    /\ VerifierIdle /\ StoreInit /\ PipelineOff

LintNext == ExtractAllLinks \/ CheckAndReport \/ CheckTerminology

LintSpec == LintInit /\ [][LintNext]_vars

\* the line lies between an opening fence line and its closing fence line
InFencedBlock(body, i) ==
    /\ InFence(body, i)
    /\ \E j \in FenceLineNumbers(body) : j > i

\* the URL stands on a line outside every fenced block
OccursOutsideFences(body, u) ==
    \E i \in 1..Len(body) :
        /\ ~InFencedBlock(body, i)
        /\ u \in extract_urls_from_text(body[i])

\* C26: a URL that stands only on lines inside fenced blocks is neither among
\* the links to check nor the subject of a link issue, and the checker is
\* handed each URL at most once.
C26_PlainUrlsOutsideFences ==
    mdx.pc \in {"extracted", "reported"} =>
        /\ \A k \in 1..Len(mdx.all_links) :
              OccursOutsideFences(mdx.body_content, mdx.all_links[k].url)
        /\ \A k \in 1..Len(mdx.issues) :
              OccursOutsideFences(mdx.body_content, mdx.issues[k].url)
        /\ \A j, k \in 1..Len(mdx.urls_to_check) :
              mdx.urls_to_check[j] = mdx.urls_to_check[k] => j = k

\* C27: no STYLE_TERMINOLOGY issue is on a line inside a fenced block or on a
\* line indented by four or more blanks.
C27_TerminologySkipsCode ==
    mdx.pc = "checked" =>
        \A k \in 1..Len(mdx.issues) :
            LET i == mdx.issues[k].line_start
            IN  /\ ~InFencedBlock(mdx.body_content, i)
                /\ ~StartsWith(mdx.body_content[i], <<" ", " ", " ", " ">>)

\* ---------------------------------------------------------------------------
\* Further properties of the chunker (ChunkSpec)
\* ---------------------------------------------------------------------------

\* C23: every chunk holds the body lines start_line..end_line, and the chunks
\* come in the order of their start lines.
C23_ChunksAreSlices ==
    chunker.pc = "done" =>
        /\ \A k \in 1..Len(chunker.chunks) :
              LET c == chunker.chunks[k]
              IN  /\ 1 <= c.start_line /\ c.end_line <= Len(chunker.body_content)
                  /\ c.content = SubSeq(chunker.body_content, c.start_line, c.end_line)
        /\ \A j, k \in 1..Len(chunker.chunks) :
              j < k => chunker.chunks[j].start_line <= chunker.chunks[k].start_line

\* overlapTokens approximated in lines: overlap_size / 50, rounded up
OverlapLineBound(overlap_size) == (overlap_size + 49) \div 50

RECURSIVE ChunkLineCount(_)
ChunkLineCount(chunks) ==
    IF chunks = <<>> THEN 0 ELSE Len(Head(chunks).content) + ChunkLineCount(Tail(chunks))

\* C24: a new buffer carries at most overlap_size / 50 (rounded up) lines of the
\* buffer before it, so the chunks of a document hold, between them, no more
\* than the lines of the body and that many lines for every chunk after the
\* first; with overlap_size = 0 no line is in two chunks.
C24_OverlapBound ==
    chunker.pc = "done" =>
        ChunkLineCount(chunker.chunks) <=
            Len(chunker.body_content)
                + (Len(chunker.chunks) - 1) * OverlapLineBound(chunker.overlap_size)

\* the lines of a chunk that are not the body of a fenced block
OutsideFenceBodies(content) == {i \in 1..Len(content) : ~InFence(content, i)}

\* C28: the rendered text of a chunk shows every fence as a marker line, holds
\* no line of a fence body, and has no two blank lines in a row.
C28_RenderedText ==
    chunker.pc = "done" =>
        \A k \in 1..Len(chunker.chunks) :
            LET c == chunker.chunks[k]
                r == c.rendered_text
            IN  /\ \A i \in 1..Len(r) : ~IsFenceLine(r[i])
                /\ Len(r) <= Cardinality(OutsideFenceBodies(c.content))
                /\ \A i \in 1..(Len(r) - 1) : ~(r[i] = <<>> /\ r[i + 1] = <<>>)

\* ---------------------------------------------------------------------------
\* crawler/repo_sync.py and run_analysis.py over several runs, for one
\* document of the repository (ResyncSpec)
\* ---------------------------------------------------------------------------

MaxResyncRuns == 3
MaxCommits == 3
MaxBlob == 2

\* blob SHA 0: the document is not in the commit
NoBlob == 0

\* commits[k] is the document's blob SHA in commit k; file_sha is File.sha of
\* its record (NoBlob: no record); runs holds status and commit_sha of the
\* analysis runs so far.
ResyncInputs ==
    {[pc |-> "between", commits |-> <<b>>, file_sha |-> NoBlob, runs |-> <<>>,
      selected |-> FALSE, missed |-> FALSE] : b \in 0..MaxBlob}

HeadBlob(r) == r.commits[Len(r.commits)]

\* the newest run with status "success", 0 if there is none
LastSuccessfulRun(r) ==
    LET ok == {k \in 1..Len(r.runs) : r.runs[k].status = "success"}
    IN  IF ok = {} THEN 0 ELSE CHOOSE k \in ok : \A j \in ok : j <= k

\* repo.get_changed_files(last_run.commit_sha, HEAD), or the listing of all
\* files when no run has succeeded: is the document among the paths?
InChangedPaths(r) ==
    LET last == LastSuccessfulRun(r)
    IN  IF last = 0 THEN HeadBlob(r) # NoBlob
        ELSE HeadBlob(r) # NoBlob /\ r.commits[r.runs[last].commit] # HeadBlob(r)

\* somebody changes or adds the document and pushes
PushCommit ==
    /\ run.pc = "between"
    /\ Len(run.commits) < MaxCommits
    /\ \E b \in 1..MaxBlob :
          /\ b # HeadBlob(run)
          /\ run' = [run EXCEPT !.commits = Append(@, b)]
    /\ UNCHANGED <<verifier_vars, store_vars, pipeline_vars, outbound, mdx, chunker, drift>>

\* a run is created and synced, then get_changed_files: _get_or_create_file
\* returns None for a record whose sha is the blob's, else it stores the
\* blob's SHA in the record and the session is committed
DetectChanges ==
    /\ run.pc = "between"
    /\ Len(run.runs) < MaxResyncRuns
    /\ LET take == InChangedPaths(run) /\ run.file_sha # HeadBlob(run)
       IN  run' = [run EXCEPT
                     !.pc = "files",
                     !.runs = Append(@, [status |-> "running", commit |-> Len(run.commits)]),
                     !.file_sha = IF take THEN HeadBlob(run) ELSE @,
                     !.selected = take]
    /\ UNCHANGED <<verifier_vars, store_vars, pipeline_vars, outbound, mdx, chunker, drift>>

\* the loop over the files and the end of the run.  Reading the expired,
\* detached File record raises in the try and in its handler, and the run is
\* marked failed; with live records the document is analysed or its
\* exception is absorbed, and the run is marked success.
AnalyzeSelected ==
    /\ run.pc = "files"
    /\ \E outcome \in {"analysed", "absorbed"} :
          LET n == Len(run.runs)
              status == IF run.selected /\ ExpireOnCommit THEN "failed" ELSE "success"
              done == run.selected /\ status = "success" /\ outcome = "analysed"
          IN  run' = [run EXCEPT
                        !.pc = "between",
                        !.runs[n].status = status,
                        !.missed = IF run.selected THEN ~done ELSE @,
                        !.selected = FALSE]
    /\ UNCHANGED <<verifier_vars, store_vars, pipeline_vars, outbound, mdx, chunker, drift>>

ResyncInit ==
    /\ run \in ResyncInputs
    /\ outbound = Idle /\ mdx = Idle /\ chunker = Idle /\ drift = Idle
    /\ VerifierIdle /\ StoreInit /\ PipelineOff

ResyncNext == PushCommit \/ DetectChanges \/ AnalyzeSelected

ResyncSpec == ResyncInit /\ [][ResyncNext]_vars

\* the document differs from what the last successful run saw
ChangedSinceLastSuccess(r) ==
    LET last == LastSuccessfulRun(r)
    IN  last # 0 /\ HeadBlob(r) # NoBlob /\ r.commits[r.runs[last].commit] # HeadBlob(r)

\* C29: change detection of a run selects the document when it has changed
\* since the last successful run and the run before selected it without
\* completing its analysis.
C29_NoFileLost ==
    (run.pc = "files" /\ run.missed /\ ChangedSinceLastSuccess(run)) => run.selected

\* ---------------------------------------------------------------------------
\* pipeline.py: the patch of one suggestion and the verifier's scope check,
\* on longer documents (PatchSpec)
\* ---------------------------------------------------------------------------

MaxPatchDocLines == 8

\* a body of n lines whose line changed, and no line before it, holds the
\* suggestion's original snippet
PatchDoc(n, changed) ==
    [k \in 1..n |-> DocLine(FALSE, IF k = changed THEN PlainA ELSE PlainB)]

\* a suggestion for the lines first..last
RangedSuggestion(first, last) ==
    [LLMSuggestion("text_edit", "LLM_QUALITY", <<"text_edit", 0>>, <<>>)
        EXCEPT !.line_start = first, !.line_end = last]

PatchInputs ==
    \E n \in 1..MaxPatchDocLines : \E changed \in 1..n :
        \E first \in 1..changed : \E last \in changed..n :
            /\ doc = PatchDoc(n, changed)
            /\ suggestions = <<RangedSuggestion(first, last)>>

\* _process_llm_suggestions is about to take its one suggestion
PatchInit ==
    /\ ppc = "suggestion"
    /\ llm_client = TRUE
    /\ PatchInputs
    /\ tasks = <<>> /\ rule_issues = <<>> /\ si = 1 /\ issues = <<>>
    /\ verifications = <<>> /\ llm_issues = <<>> /\ combined_issues = <<>>
    /\ VerifierIdle
    /\ StoreInit
    /\ UnitsIdle

PatchNext == ProcessSuggestion \/ CheckPatchScope

PatchSpec == PatchInit /\ [][PatchNext]_vars

\* C30: the patch built for a suggestion whose snippet is replaced on one
\* line within line_start..line_end passes validate_patch_scope, and the
\* verifier's scope check adds no error for it.
C30_BuiltPatchInScope ==
    ppc = "verify" =>
        /\ validate_patch_scope(args.suggested_patch, args.line_start, args.line_end)
        /\ vpc # "scope" => (~InSeq(ErrScope, result.errors) /\ result.can_auto_apply)

\* line 5 of 8 is changed and the range is that line alone
C30_Witness ==
    /\ ppc = "verify" /\ vpc # "scope"
    /\ Len(doc) = 8
    /\ args.line_start = 5 /\ args.line_end = 5
    /\ Len(args.suggested_patch) = 8
    /\ ~InSeq(ErrScope, result.errors)
====
